---------------------------- MODULE Spec2Model ----------------------------
(***************************************************************************)
(* A model of gdenv's version model, release registry and installation    *)
(* lifecycle (crate gdenv-lib).  Strings are sequences of one-character   *)
(* strings; Option<T> is a tuple of length 0 (None) or 1 (Some).          *)
(***************************************************************************)
EXTENDS Integers, Sequences, FiniteSets, TLC

VARIABLES
    installs,   \* installations_dir: directory name -> the directory's content
    dlcache,    \* cache_dir: requested version -> the archive file stored for its asset
    active,     \* the entry at config.active_symlink
    binlink,    \* the entry at config.bin_dir/godot
    last,       \* the last completed call: operation, argument, result, warnings
    scenario,   \* the install/list/uninstall scenario: its version and its step
    cache,      \* releases_cache.json: None, or its modification time and content
    now,        \* the system clock
    reg,        \* the godot_releases call in progress
    server,     \* the upstream API: the pages it can answer with
    call,       \* a call of a function of the library: its arguments and its result
    fsync       \* file_sync: the two trees, the filters and what sync_recursive did

regvars == <<cache, now, reg, server>>

purevars == <<call, fsync>>

vars == <<installs, dlcache, active, binlink, last, scenario, cache, now, reg, server, call, fsync>>

None == <<>>
Some(x) == <<x>>
IsSome(o) == Len(o) = 1
Unwrap(o) == o[1]
UnwrapOr(o, d) == IF IsSome(o) THEN o[1] ELSE d

(***************************************************************************)
(* Characters.  Ascii lists the printable characters from code 32 on, so  *)
(* that byte-wise string comparison can be computed; six characters      *)
(* stand there under a name (LPAREN is the opening parenthesis).           *)
(***************************************************************************)
Ascii == <<
    " ", "!", "DQUOTE", "#", "$", "%", "&", "'", "LPAREN", "RPAREN", "STAR", "+", ",", "-", ".", "/",
    "0", "1", "2", "3", "4", "5", "6", "7", "8", "9", ":", ";", "<", "=", ">", "?",
    "@", "A", "B", "C", "D", "E", "F", "G", "H", "I", "J", "K", "L", "M", "N", "O",
    "P", "Q", "R", "S", "T", "U", "V", "W", "X", "Y", "Z", "[", "BACKSLASH", "]", "^", "_",
    "BACKTICK", "a", "b", "c", "d", "e", "f", "g", "h", "i", "j", "k", "l", "m", "n", "o",
    "p", "q", "r", "s", "t", "u", "v", "w", "x", "y", "z", "{", "|", "}", "~"
>>



Code(c) == IF c = "\n" THEN 10 ELSE 31 + (CHOOSE i \in 1..Len(Ascii) : Ascii[i] = c)

Digits == {"0", "1", "2", "3", "4", "5", "6", "7", "8", "9"}

IsDigit(c) == c \in Digits

LowerLetters == {
    "a", "b", "c", "d", "e", "f", "g", "h", "i", "j", "k", "l", "m", "n",
    "o", "p", "q", "r", "s", "t", "u", "v", "w", "x", "y", "z"}

UpperLetters == {
    "A", "B", "C", "D", "E", "F", "G", "H", "I", "J", "K", "L", "M", "N",
    "O", "P", "Q", "R", "S", "T", "U", "V", "W", "X", "Y", "Z"}

\* [a-zA-Z]
IsLetter(c) == c \in LowerLetters \/ c \in UpperLetters

ToLowerChar(c) == IF c \in UpperLetters
                  THEN Ascii[Code(c) + (Code("a") - Code("A")) - 31]
                  ELSE c

ToLower(s) == [i \in 1..Len(s) |-> ToLowerChar(s[i])]

DigitSeq == <<"0", "1", "2", "3", "4", "5", "6", "7", "8", "9">>

DigitVal(c) ==
    CASE c = "0" -> 0 [] c = "1" -> 1 [] c = "2" -> 2 [] c = "3" -> 3 [] c = "4" -> 4
      [] c = "5" -> 5 [] c = "6" -> 6 [] c = "7" -> 7 [] c = "8" -> 8 [] c = "9" -> 9

DigitChar(d) == DigitSeq[d + 1]

\* The number the first k digits of s denote.
RECURSIVE DigitsValue(_, _)
DigitsValue(s, k) == IF k = 0 THEN 0 ELSE 10 * DigitsValue(s, k - 1) + DigitVal(s[k])

StrToNat(s) == DigitsValue(s, Len(s))

RECURSIVE NatToStr(_)
NatToStr(n) == IF n < 10 THEN <<DigitChar(n)>>
               ELSE NatToStr(n \div 10) \o <<DigitChar(n % 10)>>

StartsWith(s, p) == Len(s) >= Len(p) /\ SubSeq(s, 1, Len(p)) = p

EndsWith(s, p) == Len(s) >= Len(p) /\ SubSeq(s, Len(s) - Len(p) + 1, Len(s)) = p

StripPrefix(s, p) == SubSeq(s, Len(p) + 1, Len(s))

StripSuffix(s, p) == SubSeq(s, 1, Len(s) - Len(p))

\* The first position at or after i whose character is not in the class
\* (Len(s)+1 when the run reaches the end): a greedy \d+ or [a-zA-Z]+.
RECURSIVE DigitRunEnd(_, _)
DigitRunEnd(s, i) ==
    IF i <= Len(s) /\ IsDigit(s[i]) THEN DigitRunEnd(s, i + 1) ELSE i

RECURSIVE LetterRunEnd(_, _)
LetterRunEnd(s, i) ==
    IF i <= Len(s) /\ IsLetter(s[i]) THEN LetterRunEnd(s, i + 1) ELSE i

(***************************************************************************)
(* VersionModel: godot_version.rs                                         *)
(***************************************************************************)
\* u32::MAX in decimal; the bound is compared digit-wise.
U32MaxStr == <<"4", "2", "9", "4", "9", "6", "7", "2", "9", "5">>

Str_stable == <<"s", "t", "a", "b", "l", "e">>
Str_rc == <<"r", "c">>
Str_beta == <<"b", "e", "t", "a">>
Str_alpha == <<"a", "l", "p", "h", "a">>
Str_dev == <<"d", "e", "v">>

\* VERSION_REGEX applied to s: the capture groups 1..7 as substrings (an
\* unmatched optional group is None), or None when the regex does not match.
\* Every group is greedy and the tail (.*?)$ takes whatever is left, so the
\* first choice at each optional group is the match.  The positions are
\* computed left to right: p1 after v?, e1 after (\d+), e2..e4 after the three
\* (?:\.(\d+))?, eL after -([a-zA-Z]+), eD after (\d+)?.
CaptureGroup(s, a, b) == IF b > a THEN Some(SubSeq(s, a, b - 1)) ELSE None

\* (?:\.(\d+))? at position p: where it ends (p when it matches nothing).
DotNumEnd(s, p) ==
    IF p + 1 <= Len(s) /\ s[p] = "." /\ IsDigit(s[p + 1])
    THEN DigitRunEnd(s, p + 1) ELSE p

\* -([a-zA-Z]+) at position p: where it ends (p when it matches nothing).
TagEnd(s, p) ==
    IF p + 1 <= Len(s) /\ s[p] = "-" /\ IsLetter(s[p + 1])
    THEN LetterRunEnd(s, p + 1) ELSE p

CapturesAt(s, p1, e1, e2, e3, e4, eL, eD) ==
    IF e1 = p1 \/ (\E i \in 1..Len(s) : s[i] = "\n")
    THEN None
    ELSE Some([g1 |-> SubSeq(s, p1, e1 - 1),
               g2 |-> CaptureGroup(s, e1 + 1, e2),
               g3 |-> CaptureGroup(s, e2 + 1, e3),
               g4 |-> CaptureGroup(s, e3 + 1, e4),
               g5 |-> CaptureGroup(s, e4 + 1, eL),
               g6 |-> CaptureGroup(s, eL, eD),
               g7 |-> SubSeq(s, eD, Len(s))])

CapturesTag(s, p1, e1, e2, e3, e4, eL) ==
    CapturesAt(s, p1, e1, e2, e3, e4, eL, IF eL > e4 THEN DigitRunEnd(s, eL) ELSE e4)

CapturesSubPatch(s, p1, e1, e2, e3, e4) == CapturesTag(s, p1, e1, e2, e3, e4, TagEnd(s, e4))

CapturesPatch(s, p1, e1, e2, e3) == CapturesSubPatch(s, p1, e1, e2, e3, DotNumEnd(s, e3))

CapturesMinor(s, p1, e1, e2) == CapturesPatch(s, p1, e1, e2, DotNumEnd(s, e2))

CapturesMajor(s, p1, e1) == CapturesMinor(s, p1, e1, DotNumEnd(s, e1))

CapturesFrom(s, p1) == CapturesMajor(s, p1, DigitRunEnd(s, p1))

VersionCaptures(s) == CapturesFrom(s, IF Len(s) >= 1 /\ s[1] = "v" THEN 2 ELSE 1)

\* A run of digits without its leading zeros (one digit is always kept).
RECURSIVE StripLeadingZeros(_)
StripLeadingZeros(ds) ==
    IF Len(ds) > 1 /\ ds[1] = "0" THEN StripLeadingZeros(Tail(ds)) ELSE ds

\* The number the digits denote exceeds u32::MAX.
OverflowsU32(ds) ==
    LET c == StripLeadingZeros(ds) IN
    \/ Len(c) > Len(U32MaxStr)
    \/ (Len(c) = Len(U32MaxStr)
        /\ \E i \in 1..Len(c) :
              /\ DigitVal(c[i]) > DigitVal(U32MaxStr[i])
              /\ \A j \in 1..(i - 1) : c[j] = U32MaxStr[j])

\* str::parse::<u32>() on a run of ASCII digits: Err on overflow.
ParseU32(ds) == IF OverflowsU32(ds) THEN None ELSE Some(StrToNat(ds))

\* m.map(parse).transpose(): [ok, val] with val an Option<u32>.
ParseOptU32(g) ==
    IF ~IsSome(g) THEN [ok |-> TRUE, val |-> None]
    ELSE IF OverflowsU32(Unwrap(g)) THEN [ok |-> FALSE, val |-> None]
    ELSE [ok |-> TRUE, val |-> Some(StrToNat(Unwrap(g)))]

\* A filter that keeps a trailing zero.
FilterZeroKept(opt, keep) == opt

\* Option::filter as used for the trailing zeros: keep Some(value) when
\* `keep` holds or the value is positive.
FilterZero(opt, keep) ==
    IF IsSome(opt) /\ (keep \/ Unwrap(opt) > 0) THEN opt ELSE None

\* The end of GodotVersion::new: the trailing zeros are dropped and the
\* struct is built from the parsed captures.
VersionFromParsed(major, minor_opt, patch_opt, sub_patch_opt, tag_version, c, is_dotnet) ==
    IF ~IsSome(major) \/ ~minor_opt.ok \/ ~patch_opt.ok \/ ~sub_patch_opt.ok \/ ~tag_version.ok
    THEN None
    ELSE LET sub_patch == FilterZero(sub_patch_opt.val, FALSE)
             patch == FilterZero(patch_opt.val, IsSome(sub_patch))
             minor == FilterZero(minor_opt.val, IsSome(patch))
         IN  Some([major |-> Unwrap(major),
                   minor |-> minor,
                   patch |-> patch,
                   sub_patch |-> sub_patch,
                   release_tag |-> Some(UnwrapOr(c.g5, Str_stable)),
                   tag_version |-> tag_version.val,
                   extra |-> IF c.g7 = <<>> THEN None ELSE Some(c.g7),
                   is_dotnet |-> is_dotnet])

\* GodotVersion::new after the regex was applied: caps is its result.
VersionFromCaptures(caps, is_dotnet) ==
    IF ~IsSome(caps) THEN None
    ELSE VersionFromParsed(ParseU32(caps[1].g1), ParseOptU32(caps[1].g2),
                           ParseOptU32(caps[1].g3), ParseOptU32(caps[1].g4),
                           ParseOptU32(caps[1].g6), caps[1], is_dotnet)

\* GodotVersion::new: Some(version) for Ok, None for Err.
GodotVersionNew(version_str, is_dotnet) ==
    VersionFromCaptures(VersionCaptures(version_str), is_dotnet)

as_str_no_release_tag(v) ==
    NatToStr(v.major) \o <<".">> \o NatToStr(UnwrapOr(v.minor, 0))
    \o (IF IsSome(v.patch)
        THEN <<".">> \o NatToStr(Unwrap(v.patch))
             \o (IF IsSome(v.sub_patch) THEN <<".">> \o NatToStr(Unwrap(v.sub_patch))
                 ELSE <<>>)
        ELSE <<>>)

as_godot_version_str(v) ==
    as_str_no_release_tag(v)
    \o (IF IsSome(v.release_tag) THEN <<"-">> \o Unwrap(v.release_tag) ELSE <<>>)
    \o (IF IsSome(v.tag_version) THEN NatToStr(Unwrap(v.tag_version)) ELSE <<>>)
    \o (IF IsSome(v.extra) THEN Unwrap(v.extra) ELSE <<>>)

\* Orderings are -1 (Less), 0 (Equal), 1 (Greater).
\* A comparison that never answers Equal.
CmpIntNeverEqual(a, b) == IF a < b THEN -1 ELSE 1

CmpInt(a, b) == IF a < b THEN -1 ELSE IF a > b THEN 1 ELSE 0

Then(o1, o2) == IF o1 # 0 THEN o1 ELSE o2

\* str::cmp: byte-wise lexicographic.
CmpStr(a, b) ==
    LET m == IF Len(a) < Len(b) THEN Len(a) ELSE Len(b)
        diff == {i \in 1..m : a[i] # b[i]}
    IN  IF diff = {} THEN CmpInt(Len(a), Len(b))
        ELSE LET i == CHOOSE k \in diff : \A j \in diff : k <= j
             IN  CmpInt(Code(a[i]), Code(b[i]))

\* Option<String>::cmp: None sorts before Some.
CmpOptStr(a, b) ==
    IF ~IsSome(a) /\ ~IsSome(b) THEN 0
    ELSE IF ~IsSome(a) THEN -1
    ELSE IF ~IsSome(b) THEN 1
    ELSE CmpStr(Unwrap(a), Unwrap(b))

\* The ranks with rc below beta.
get_tag_rank_rc_below_beta(tag) ==
    LET t == ToLower(UnwrapOr(tag, Str_stable)) IN
    IF t = Str_stable THEN 100
    ELSE IF t = Str_rc THEN 60
    ELSE IF t = Str_beta THEN 80
    ELSE IF t = Str_alpha THEN 40
    ELSE IF t = Str_dev THEN 20
    ELSE 0

get_tag_rank(tag) ==
    LET t == ToLower(UnwrapOr(tag, Str_stable)) IN
    IF t = Str_stable THEN 100
    ELSE IF t = Str_rc THEN 80
    ELSE IF t = Str_beta THEN 60
    ELSE IF t = Str_alpha THEN 40
    ELSE IF t = Str_dev THEN 20
    ELSE 0

\* impl Ord for GodotVersion.
VersionCmp(a, b) ==
    Then(CmpInt(a.major, b.major),
    Then(CmpInt(UnwrapOr(a.minor, 0), UnwrapOr(b.minor, 0)),
    Then(CmpInt(UnwrapOr(a.patch, 0), UnwrapOr(b.patch, 0)),
    Then(CmpInt(UnwrapOr(a.sub_patch, 0), UnwrapOr(b.sub_patch, 0)),
    Then(CmpInt(get_tag_rank(a.release_tag), get_tag_rank(b.release_tag)),
    Then(CmpOptStr(a.release_tag, b.release_tag),
    Then(CmpInt(UnwrapOr(a.tag_version, 0), UnwrapOr(b.tag_version, 0)),
         CmpOptStr(a.extra, b.extra))))))))

\* Vec<GodotVersion>::sort (stable): insertion sort under VersionCmp.
RECURSIVE SortVersions(_)
SortVersions(seq) ==
    IF seq = <<>> THEN <<>>
    ELSE LET init == SortVersions(SubSeq(seq, 1, Len(seq) - 1))
             x == seq[Len(seq)]
             k == Cardinality({i \in 1..Len(init) : VersionCmp(init[i], x) <= 0})
         IN  SubSeq(init, 1, k) \o <<x>> \o SubSeq(init, k + 1, Len(init))

(***************************************************************************)
(* godot.rs: directory naming                                              *)
(***************************************************************************)
Str_godot_dash == <<"g", "o", "d", "o", "t", "-">>
Str_dash_dotnet == <<"-", "d", "o", "t", "n", "e", "t">>

godot_installation_name(v) ==
    IF v.is_dotnet
    THEN Str_godot_dash \o as_godot_version_str(v) \o Str_dash_dotnet
    ELSE Str_godot_dash \o as_godot_version_str(v)

\* The reverse parse shared by get_active_version and list_installed:
\* strip "godot-", take "-dotnet" off the end, re-parse the rest.
VersionOfDirName(dir_name) ==
    IF ~StartsWith(dir_name, Str_godot_dash) THEN None
    ELSE LET version_part == StripPrefix(dir_name, Str_godot_dash)
             is_dotnet == EndsWith(version_part, Str_dash_dotnet)
             version_str == IF is_dotnet THEN StripSuffix(version_part, Str_dash_dotnet)
                            ELSE version_part
         IN  GodotVersionNew(version_str, is_dotnet)


(***************************************************************************)
(* InstallationLifecycle: installer.rs                                     *)
(***************************************************************************)
Str_4_2 == <<"4", ".", "2">>
Str_4_3_rc1 == <<"4", ".", "3", "-", "r", "c", "1">>

\* The versions the callers of this model ask for.
Requested == {Unwrap(GodotVersionNew(Str_4_2, FALSE)), Unwrap(GodotVersionNew(Str_4_3_rc1, TRUE))}

\* The version strings of the install/list/uninstall scenario: every string
\* over ScenarioAlphabet of length 1..MaxLen.
MaxLen == 3

ScenarioAlphabet == {"4", "0", ".", "-", "c", "v"}

ScenarioStrings == UNION {[1..n -> ScenarioAlphabet] : n \in 1..MaxLen}

\* The identifiers GodotVersion::new accepts among them, with either flag.
ScenarioVersions ==
    {Unwrap(GodotVersionNew(s, d)) :
        <<s, d>> \in {p \in ScenarioStrings \X BOOLEAN : IsSome(GodotVersionNew(p[1], p[2]))}}

\* Archive entries: the executable at the path godot_executable_path expects,
\* and a file that is no executable.
ExeEntry == "Godot_exe"
DocEntry == "README"

\* A zip file: its entries in order, the index of an entry whose data cannot
\* be read (0: none), and whether the file is whole (a truncated file has no
\* central directory and cannot be opened as a zip).
GoodArchive == [entries |-> <<DocEntry, ExeEntry>>, bad |-> 0, whole |-> TRUE]
CorruptArchive == [entries |-> <<DocEntry, ExeEntry>>, bad |-> 1, whole |-> TRUE]
TruncatedArchive == [entries |-> <<DocEntry, ExeEntry>>, bad |-> 0, whole |-> FALSE]

\* What the release host serves for an asset.
ServedArchives == {GoodArchive, CorruptArchive}

\* A directory's content: the files in it, and those among them whose data
\* is incomplete.
EmptyDir == [files |-> {}, torn |-> {}]

Absent == [kind |-> "absent", target |-> None]
Symlink(t) == [kind |-> "symlink", target |-> Some(t)]
PlainFile == [kind |-> "file", target |-> None]
RealDir == [kind |-> "dir", target |-> None]

Ok(x) == [tag |-> "Ok", val |-> Some(x)]
Err(e) == [tag |-> "Err", val |-> Some(e)]
IsOk(r) == r.tag = "Ok"
\* The result of a call that has not returned yet.
Pending == [tag |-> "Pending", val |-> None]

RemoveKey(f, k) == [x \in (DOMAIN f) \ {k} |-> f[x]]
PutKey(f, k, val) == [x \in (DOMAIN f) \cup {k} |-> IF x = k THEN val ELSE f[x]]

\* extract_zip into an empty directory: [ok, dir].  File::open / ZipArchive::new
\* fail on a truncated file; entry i is created and then io::copy fails when
\* its data cannot be read, which ends the loop with the ? operator.
RECURSIVE ExtractFrom(_, _, _)
ExtractFrom(archive, i, dir) ==
    IF i > Len(archive.entries) THEN [ok |-> TRUE, dir |-> dir]
    ELSE IF i = archive.bad
         THEN [ok |-> FALSE,
               dir |-> [files |-> dir.files \cup {archive.entries[i]},
                        torn |-> dir.torn \cup {archive.entries[i]}]]
         ELSE ExtractFrom(archive, i + 1,
                          [files |-> dir.files \cup {archive.entries[i]}, torn |-> dir.torn])

extract_zip(archive, dir) ==
    IF ~archive.whole THEN [ok |-> FALSE, dir |-> dir]
    ELSE ExtractFrom(archive, 1, dir)

\* install_version_from_archive: [res, installs].
install_version_from_archive(inst, version, archive) ==
    LET install_path == godot_installation_name(version)
        removed == IF install_path \in DOMAIN inst THEN RemoveKey(inst, install_path) ELSE inst
        created == PutKey(removed, install_path, EmptyDir)
        ex == extract_zip(archive, EmptyDir)
    IN  IF ex.ok
        THEN [res |-> Ok(install_path), installs |-> PutKey(created, install_path, ex.dir)]
        ELSE [res |-> Err("extract"), installs |-> PutKey(created, install_path, ex.dir)]

\* find_godot_executable: the expected path when it is a file; the fallback
\* walk looks for a file named Godot*, and the archives hold no other one.
find_godot_executable(inst, install_path) ==
    IF ExeEntry \in inst[install_path].files
    THEN Ok(<<install_path, ExeEntry>>)
    ELSE Err("no executable")

get_executable_path(inst, version) ==
    LET install_path == godot_installation_name(version) IN
    IF install_path \notin DOMAIN inst THEN Err("not installed")
    ELSE find_godot_executable(inst, install_path)

\* The identifiers list_installed collects, before sorting.
InstalledVersions(inst) ==
    {Unwrap(VersionOfDirName(d)) : d \in {e \in DOMAIN inst : IsSome(VersionOfDirName(e))}}

\* list_installed without the final sort.
list_installed_unsorted(inst, order) ==
    LET parsed == [i \in 1..Len(order) |-> VersionOfDirName(order[i])]
        RECURSIVE CollectAll(_)
        CollectAll(i) == IF i > Len(order) THEN <<>>
                         ELSE (IF IsSome(parsed[i]) THEN <<Unwrap(parsed[i])>> ELSE <<>>)
                              \o CollectAll(i + 1)
    IN  CollectAll(1)

\* list_installed with read_dir yielding the directories in the order `order`.
list_installed(inst, order) ==
    LET parsed == [i \in 1..Len(order) |-> VersionOfDirName(order[i])]
        RECURSIVE Collect(_)
        Collect(i) == IF i > Len(order) THEN <<>>
                      ELSE (IF IsSome(parsed[i]) THEN <<Unwrap(parsed[i])>> ELSE <<>>)
                           \o Collect(i + 1)
    IN  SortVersions(Collect(1))

\* update_symlink that replaces whatever occupies the link path.
update_symlink_overwrite(original, link) == [entry |-> Symlink(original), warned |-> FALSE]

\* update_symlink on the entry at `link`: [entry, warned].
update_symlink(original, link) ==
    IF link.kind = "symlink" THEN [entry |-> Symlink(original), warned |-> FALSE]
    ELSE IF link.kind = "absent" THEN [entry |-> Symlink(original), warned |-> FALSE]
    ELSE [entry |-> link, warned |-> TRUE]

\* Path::exists on a link path follows the symlink.
ActiveExists(inst, act) ==
    \/ act.kind \in {"file", "dir"}
    \/ (act.kind = "symlink" /\ Unwrap(act.target) \in DOMAIN inst)

\* get_active_version that reads the link whether or not its target exists.
get_active_version_unchecked(inst, act) ==
    IF act.kind # "symlink" THEN Err("read_link")
    ELSE Ok(VersionOfDirName(Unwrap(act.target)))

\* get_active_version: Ok(Option<GodotVersion>) or the Err of read_link.
get_active_version(inst, act) ==
    IF ~ActiveExists(inst, act) THEN Ok(None)
    ELSE IF act.kind # "symlink" THEN Err("read_link")
    ELSE Ok(VersionOfDirName(Unwrap(act.target)))

\* What the DownloadClient answers: godot_releases(false) fails, or the catalog
\* lacks the version, or its release has no asset for the platform, or the
\* asset is found.
CatalogOutcomes == {"fetch_err", "not_in_catalog", "no_asset", "found"}

\* download_asset: the request is refused before the file is created, or the
\* stream breaks after File::create (a truncated file stays), or the archive
\* the server holds is written in full.
Downloads ==
    {[outcome |-> "http_err", archive |-> TruncatedArchive],
     [outcome |-> "stream_err", archive |-> TruncatedArchive]}
    \cup {[outcome |-> "ok", archive |-> a] : a \in ServedArchives}

\* ensure_installed: [res, installs, dlcache].
ensure_installed(inst, downloads, version, force, rel, dl) ==
    IF ~force /\ version \in InstalledVersions(inst)
    THEN [res |-> get_executable_path(inst, version), installs |-> inst, dlcache |-> downloads]
    ELSE IF rel = "fetch_err"
    THEN [res |-> Err("godot_releases"), installs |-> inst, dlcache |-> downloads]
    ELSE IF rel = "not_in_catalog"
    THEN [res |-> Err("version not found"), installs |-> inst, dlcache |-> downloads]
    ELSE IF rel = "no_asset"
    THEN [res |-> Err("no matching asset"), installs |-> inst, dlcache |-> downloads]
    ELSE IF version \notin DOMAIN downloads /\ dl.outcome = "http_err"
    THEN [res |-> Err("download"), installs |-> inst, dlcache |-> downloads]
    ELSE IF version \notin DOMAIN downloads /\ dl.outcome = "stream_err"
    THEN [res |-> Err("download"), installs |-> inst,
          dlcache |-> PutKey(downloads, version, TruncatedArchive)]
    ELSE LET downloads2 == IF version \notin DOMAIN downloads
                       THEN PutKey(downloads, version, dl.archive) ELSE downloads
             r == install_version_from_archive(inst, version, downloads2[version])
         IN  [res |-> r.res, installs |-> r.installs, dlcache |-> downloads2]

\* An uninstall that empties the installations root.
uninstall_version_purging(inst, version) ==
    LET install_path == godot_installation_name(version) IN
    IF install_path \notin DOMAIN inst
    THEN [res |-> Err("not installed"), installs |-> inst]
    ELSE [res |-> Ok("unit"), installs |-> <<>>]

\* uninstall_version: [res, installs].
uninstall_version(inst, version) ==
    LET install_path == godot_installation_name(version) IN
    IF install_path \notin DOMAIN inst
    THEN [res |-> Err("not installed"), installs |-> inst]
    ELSE [res |-> Ok("unit"), installs |-> RemoveKey(inst, install_path)]

\* set_active_version without the check that the version is installed.
set_active_version_unchecked(inst, act, bin, version) ==
    LET install_path == godot_installation_name(version)
        a == update_symlink(install_path, act)
        wa == IF a.warned THEN {"active"} ELSE {}
    IN  IF install_path \notin DOMAIN inst
        THEN [res |-> Err("executable not found"), active |-> a.entry, binlink |-> bin,
              warned |-> wa]
        ELSE LET exe == find_godot_executable(inst, install_path)
                 b == update_symlink(Unwrap(exe.val), bin)
             IN  IF ~IsOk(exe)
                 THEN [res |-> exe, active |-> a.entry, binlink |-> bin, warned |-> wa]
                 ELSE [res |-> Ok("unit"), active |-> a.entry, binlink |-> b.entry,
                       warned |-> wa \cup (IF b.warned THEN {"bin"} ELSE {})]

\* set_active_version: [res, active, binlink, warned].
set_active_version(inst, act, bin, version) ==
    LET install_path == godot_installation_name(version) IN
    IF install_path \notin DOMAIN inst
    THEN [res |-> Err("not installed"), active |-> act, binlink |-> bin, warned |-> {}]
    ELSE LET a == update_symlink(install_path, act)
             exe == find_godot_executable(inst, install_path)
             b == update_symlink(Unwrap(exe.val), bin)
             wa == IF a.warned THEN {"active"} ELSE {}
         IN  IF ~IsOk(exe)
             THEN [res |-> exe, active |-> a.entry, binlink |-> bin, warned |-> wa]
             ELSE [res |-> Ok("unit"), active |-> a.entry, binlink |-> b.entry,
                   warned |-> wa \cup (IF b.warned THEN {"bin"} ELSE {})]

NoScenario == [version |-> None, step |-> 0]

Done(op, arg, res, warned) == [op |-> op, arg |-> arg, res |-> res, warned |-> warned]

\* Permutations of a finite set, as sequences: the orders read_dir may yield.
Orders(S) == {f \in [1..Cardinality(S) -> S] : \A i, j \in 1..Cardinality(S) : f[i] = f[j] => i = j}

(***************************************************************************)
(* github.rs: the release catalog and its cache                            *)
(*                                                                         *)
(* Time is counted in ticks, TicksPerSecond to the second, so that         *)
(* Duration::as_secs has a fraction to drop.  The cache file's content is  *)
(* the list it was written from (serde writes and reads every field of     *)
(* GitHubRelease as it is), or None when the file does not hold a list.    *)
(***************************************************************************)
CACHE_VALIDITY_DAYS == 7

TicksPerSecond == 2

Day == 24 * 60 * 60 * TicksPerSecond

Instants == {0, 1, 6 * Day, 7 * Day, 8 * Day}

CacheFile(mtime, content) == Some([mtime |-> mtime, content |-> content])

\* is_cache_valid with the clock reading t.
is_cache_valid_inclusive(c, t) ==
    IF ~IsSome(c) THEN FALSE
    ELSE LET modified == Unwrap(c).mtime
         IN  IF t >= modified
             THEN ((t - modified) \div TicksPerSecond) <= CACHE_VALIDITY_DAYS * 24 * 60 * 60
             ELSE FALSE

is_cache_valid(c, t) ==
    IF ~IsSome(c) THEN FALSE
    ELSE LET modified == Unwrap(c).mtime
         IN  IF t >= modified
             THEN ((t - modified) \div TicksPerSecond) < CACHE_VALIDITY_DAYS * 24 * 60 * 60
             ELSE FALSE

\* Vec<GitHubRelease>::sort (stable) under Ord for GitHubRelease.
RECURSIVE SortReleases(_)
SortReleases(seq) ==
    IF seq = <<>> THEN <<>>
    ELSE LET init == SortReleases(SubSeq(seq, 1, Len(seq) - 1))
             x == seq[Len(seq)]
             k == Cardinality({i \in 1..Len(init) : VersionCmp(init[i].version, x.version) <= 0})
         IN  SubSeq(init, 1, k) \o <<x>> \o SubSeq(init, k + 1, Len(init))

\* load_cache that returns the list in the file's order.
load_cache_unsorted(c) ==
    IF IsSome(c) /\ IsSome(Unwrap(c).content)
    THEN Ok(Unwrap(Unwrap(c).content))
    ELSE Err("load_cache")

load_cache(c) ==
    IF IsSome(c) /\ IsSome(Unwrap(c).content)
    THEN Ok(SortReleases(Unwrap(Unwrap(c).content)))
    ELSE Err("load_cache")

\* save_cache at time t: [res, cache].  "create_err": the directory or the
\* file cannot be created; "write_err": the write stops after the file was
\* truncated.
SaveOutcomes == {"ok", "create_err", "write_err"}

save_cache(c, t, releases, outcome) ==
    CASE outcome = "ok" -> [res |-> Ok("unit"), cache |-> CacheFile(t, Some(releases))]
      [] outcome = "create_err" -> [res |-> Err("create"), cache |-> c]
      [] outcome = "write_err" -> [res |-> Err("write"), cache |-> CacheFile(t, None)]

from_json_struct(json) ==
    LET version == GodotVersionNew(json.tag_name, FALSE)
    IN  IF IsSome(version)
        THEN Ok([version |-> Unwrap(version), assets |-> json.assets])
        ELSE Err("parse")

\* The conversion loop that stops at the first record it cannot parse.
RECURSIVE parse_releases_aborting(_)
parse_releases_aborting(releases) ==
    IF releases = <<>> THEN <<>>
    ELSE LET r == from_json_struct(Head(releases))
         IN  IF IsOk(r)
             THEN <<Unwrap(r.val), [Unwrap(r.val) EXCEPT !.version.is_dotnet = TRUE]>>
                  \o parse_releases_aborting(Tail(releases))
             ELSE <<>>

\* The conversion loop of fetch_all_releases_from_api.
RECURSIVE parse_releases(_)
parse_releases(releases) ==
    IF releases = <<>> THEN <<>>
    ELSE LET r == from_json_struct(Head(releases))
         IN  IF IsOk(r)
             THEN <<Unwrap(r.val), [Unwrap(r.val) EXCEPT !.version.is_dotnet = TRUE]>>
                  \o parse_releases(Tail(releases))
             ELSE parse_releases(Tail(releases))

\* A link header is a list of parts, each a URL (the page it names) and a rel.
RECURSIVE parse_next_link(_)
parse_next_link(link_header) ==
    IF link_header = <<>> THEN None
    ELSE IF Head(link_header).rel = "next" THEN Some(Head(link_header).url)
    ELSE parse_next_link(Tail(link_header))

HardCap == 1000

PerPage == 100

IdleReg == [pc |-> "idle", force |-> FALSE, releases |-> <<>>, next_url |-> None,
            requests |-> 0, response |-> None]

Returned(r) == [IdleReg EXCEPT !.requests = r.requests]

\* One pass of the paging loop from the response on: [reg, res], res the
\* result godot_releases returns when the page ends the call.
receive_page_keeping_partial(r) ==
    LET response == Unwrap(r.response)
        releases == r.releases \o response.body
        more == IF response.kind # "ok" \/ Len(releases) >= HardCap \/ ~IsSome(response.link)
                THEN None
                ELSE parse_next_link(Unwrap(response.link))
    IN  [reg |-> [r EXCEPT !.releases = releases, !.response = None,
                           !.next_url = IF Len(releases) >= HardCap THEN @ ELSE more,
                           !.pc = IF IsSome(more) THEN "fetch" ELSE "parse"],
         res |-> None]

receive_page_cap_exclusive(r) ==
    LET response == Unwrap(r.response)
        releases == r.releases \o response.body
        more == IF Len(releases) > HardCap \/ ~IsSome(response.link)
                THEN None
                ELSE parse_next_link(Unwrap(response.link))
    IN  IF response.kind # "ok"
        THEN [reg |-> Returned(r), res |-> Some(Err(response.kind))]
        ELSE [reg |-> [r EXCEPT !.releases = releases, !.response = None,
                                !.next_url = IF Len(releases) > HardCap THEN @ ELSE more,
                                !.pc = IF IsSome(more) THEN "fetch" ELSE "parse"],
              res |-> None]

receive_page(r) ==
    LET response == Unwrap(r.response)
        releases == r.releases \o response.body
        more == IF Len(releases) >= HardCap \/ ~IsSome(response.link)
                THEN None
                ELSE parse_next_link(Unwrap(response.link))
    IN  IF response.kind # "ok"
        THEN [reg |-> Returned(r), res |-> Some(Err(response.kind))]
        ELSE [reg |-> [r EXCEPT !.releases = releases, !.response = None,
                                !.next_url = IF Len(releases) >= HardCap THEN @ ELSE more,
                                !.pc = IF IsSome(more) THEN "fetch" ELSE "parse"],
              res |-> None]

\* The tag names fetch_all_releases_from_api logs as unavailable.
Unparsed(releases) ==
    {releases[i].tag_name : i \in {j \in 1..Len(releases) : ~IsOk(from_json_struct(releases[j]))}}

\* godot_releases from the end of the paging loop on: [res, cache].
godot_releases_finish(c, t, releases, outcome) ==
    LET sorted_releases == SortReleases(parse_releases(releases))
        saved == save_cache(c, t, sorted_releases, outcome)
    IN  IF IsOk(saved.res)
        THEN [res |-> Ok(sorted_releases), cache |-> saved.cache]
        ELSE [res |-> Err("save_cache"), cache |-> saved.cache]

\* godot_releases up to its first request: the cached list, or the loop.
godot_releases_start(c, t, force_refresh) ==
    IF ~force_refresh /\ is_cache_valid(c, t)
    THEN [reg |-> IdleReg, res |-> Some(load_cache(c))]
    ELSE [reg |-> [IdleReg EXCEPT !.pc = "fetch", !.force = force_refresh, !.next_url = Some(1)],
          res |-> None]

\* The upstream API.
Str_4_2_stable == Str_4_2 \o <<"-">> \o Str_stable
Str_nightly == <<"n", "i", "g", "h", "t", "l", "y">>

Asset(name) == [name |-> name, browser_download_url |-> "https://" \o name, size |-> 1]

RecStable == [tag_name |-> Str_4_2_stable, assets |-> <<Asset("stable.zip"), Asset("stable.txt")>>]
RecRc == [tag_name |-> Str_4_3_rc1, assets |-> <<Asset("rc1.zip")>>]
RecNightly == [tag_name |-> Str_nightly, assets |-> <<Asset("nightly.zip")>>]

SmallBodies == {<<>>, <<RecStable>>, <<RecRc>>, <<RecNightly>>}

FailKinds == {"transport", "status", "json"}

MaxSmallPages == 2

SmallServer == [bodies |-> SmallBodies, fails |-> FailKinds, pages |-> MaxSmallPages]

\* Full and nearly full pages.
Bulk(n) == [i \in 1..n |-> RecStable]

BulkBodies == {Bulk(0), Bulk(PerPage - 1), Bulk(PerPage)}

MaxBulkPages == 12

BulkServer == [bodies |-> BulkBodies, fails |-> {}, pages |-> MaxBulkPages]

NoServer == [bodies |-> {}, fails |-> {}, pages |-> 0]

\* The link headers of the page at URL n.
LinkHeaders(n) ==
    {None,
     Some(<<[url |-> n - 1, rel |-> "prev"]>>),
     Some(<<[url |-> n - 1, rel |-> "prev"], [url |-> n + 1, rel |-> "next"]>>)}

Responses(srv, n) ==
    {[kind |-> k, body |-> <<>>, link |-> None] : k \in srv.fails}
    \cup {[kind |-> "ok", body |-> b, link |-> l] : b \in srv.bodies, l \in LinkHeaders(n)}

RegistryUnused ==
    /\ cache = None
    /\ now = 0
    /\ reg = IdleReg
    /\ server = NoServer

NoCall == [fn |-> "none"]

NoSync == [run |-> 0]

LibraryUnused ==
    /\ call = NoCall
    /\ fsync = NoSync

(***************************************************************************)
(* The installer's calls, each one atomic: callers run them one at a time. *)
(***************************************************************************)
\* The client's answers are drawn where ensure_installed asks for them.
EnsureInstalled ==
    \E v \in Requested, force \in BOOLEAN :
      \E rel \in (IF ~force /\ v \in InstalledVersions(installs)
                  THEN {"found"} ELSE CatalogOutcomes) :
        \E dl \in (IF (~force /\ v \in InstalledVersions(installs))
                      \/ rel # "found" \/ v \in DOMAIN dlcache
                   THEN {[outcome |-> "ok", archive |-> GoodArchive]} ELSE Downloads) :
          LET r == ensure_installed(installs, dlcache, v, force, rel, dl) IN
          /\ installs' = r.installs
          /\ dlcache' = r.dlcache
          /\ last' = Done("ensure_installed", Some(v), r.res, {})
          /\ UNCHANGED <<active, binlink, scenario, regvars, purevars>>

UninstallVersion ==
    \E v \in Requested :
        LET r == uninstall_version(installs, v) IN
        /\ installs' = r.installs
        /\ last' = Done("uninstall_version", Some(v), r.res, {})
        /\ UNCHANGED <<dlcache, active, binlink, scenario, regvars, purevars>>

SetActiveVersion ==
    \E v \in Requested :
        LET r == set_active_version(installs, active, binlink, v) IN
        /\ active' = r.active
        /\ binlink' = r.binlink
        /\ last' = Done("set_active_version", Some(v), r.res, r.warned)
        /\ UNCHANGED <<installs, dlcache, scenario, regvars, purevars>>

GetActiveVersion ==
    /\ last' = Done("get_active_version", None, get_active_version(installs, active), {})
    /\ UNCHANGED <<installs, dlcache, active, binlink, scenario, regvars, purevars>>

ListInstalled ==
    \E order \in Orders(DOMAIN installs) :
        /\ last' = Done("list_installed", None, Ok(list_installed(installs, order)), {})
        /\ UNCHANGED <<installs, dlcache, active, binlink, scenario, regvars, purevars>>

\* After Config::setup the installations root and the download cache are
\* empty; the two link paths are free or hold something another program put
\* there.
Init ==
    /\ installs = <<>>
    /\ dlcache = <<>>
    /\ active \in {Absent, PlainFile, RealDir}
    /\ binlink \in {Absent, PlainFile, RealDir}
    /\ last = Done("setup", None, Ok("unit"), {})
    /\ scenario = NoScenario
    /\ RegistryUnused
    /\ LibraryUnused

Next ==
    \/ EnsureInstalled
    \/ UninstallVersion
    \/ SetActiveVersion
    \/ GetActiveVersion
    \/ ListInstalled

Spec == Init /\ [][Next]_vars


(***************************************************************************)
(* The scenario of test_installation_lifecycle for any accepted version:   *)
(* from an empty installations root, install V, list, uninstall V, list.   *)
(***************************************************************************)
ScenarioInit ==
    /\ installs = <<>>
    /\ dlcache = <<>>
    /\ active = Absent
    /\ binlink = Absent
    /\ last = Done("setup", None, Ok("unit"), {})
    /\ scenario \in {[version |-> Some(v), step |-> 0] : v \in ScenarioVersions}
    /\ RegistryUnused
    /\ LibraryUnused

ScenarioInstall ==
    /\ scenario.step = 0
    /\ LET r == ensure_installed(installs, dlcache, Unwrap(scenario.version), FALSE, "found",
                                 [outcome |-> "ok", archive |-> GoodArchive])
       IN  /\ installs' = r.installs
           /\ dlcache' = r.dlcache
           /\ last' = Done("ensure_installed", scenario.version, r.res, {})
    /\ scenario' = [scenario EXCEPT !.step = 1]
    /\ UNCHANGED <<active, binlink, regvars, purevars>>

ScenarioList ==
    /\ scenario.step \in {1, 3}
    /\ \E order \in Orders(DOMAIN installs) :
          last' = Done("list_installed", None, Ok(list_installed(installs, order)), {})
    /\ scenario' = [scenario EXCEPT !.step = @ + 1]
    /\ UNCHANGED <<installs, dlcache, active, binlink, regvars, purevars>>

ScenarioUninstall ==
    /\ scenario.step = 2
    /\ LET r == uninstall_version(installs, Unwrap(scenario.version))
       IN  /\ installs' = r.installs
           /\ last' = Done("uninstall_version", scenario.version, r.res, {})
    /\ scenario' = [scenario EXCEPT !.step = 3]
    /\ UNCHANGED <<dlcache, active, binlink, regvars, purevars>>

ScenarioNext == ScenarioInstall \/ ScenarioList \/ ScenarioUninstall

ScenarioSpec == ScenarioInit /\ [][ScenarioNext]_vars

(***************************************************************************)
(* Activation of any accepted version: from an empty installations root,   *)
(* with the two link paths free or occupied, install V, set_active_version *)
(* (V), get_active_version().                                              *)
(***************************************************************************)
\* A directory name an earlier activation may have left the links pointing at.
Str_godot_old == <<"g", "o", "d", "o", "t", "-", "3", ".", "0", "-", "s", "t", "a", "b", "l", "e">>

ActivationInit ==
    /\ installs = <<>>
    /\ dlcache = <<>>
    /\ active \in {Absent, Symlink(Str_godot_old), PlainFile}
    /\ binlink \in {Absent, Symlink(<<Str_godot_old, ExeEntry>>), PlainFile}
    /\ last = Done("setup", None, Ok("unit"), {})
    /\ scenario \in {[version |-> Some(v), step |-> 0, activated |-> FALSE] :
                        v \in ScenarioVersions}
    /\ RegistryUnused
    /\ LibraryUnused

ActivationInstall ==
    /\ scenario.step = 0
    /\ \E a \in ServedArchives :
         LET r == ensure_installed(installs, dlcache, Unwrap(scenario.version), FALSE, "found",
                                   [outcome |-> "ok", archive |-> a])
         IN  /\ installs' = r.installs
             /\ dlcache' = r.dlcache
             /\ last' = Done("ensure_installed", scenario.version, r.res, {})
    /\ scenario' = [scenario EXCEPT !.step = 1]
    /\ UNCHANGED <<active, binlink, regvars, purevars>>

\* scenario.activated: the call returned Ok and neither path held a non-symlink.
ActivationSetActive ==
    /\ scenario.step = 1
    /\ LET r == set_active_version(installs, active, binlink, Unwrap(scenario.version))
       IN  /\ active' = r.active
           /\ binlink' = r.binlink
           /\ last' = Done("set_active_version", scenario.version, r.res, r.warned)
           /\ scenario' = [scenario EXCEPT !.step = 2,
                                           !.activated = IsOk(r.res) /\ r.warned = {}]
    /\ UNCHANGED <<installs, dlcache, regvars, purevars>>

ActivationGetActive ==
    /\ scenario.step = 2
    /\ last' = Done("get_active_version", None, get_active_version(installs, active), {})
    /\ scenario' = [scenario EXCEPT !.step = 3]
    /\ UNCHANGED <<installs, dlcache, active, binlink, regvars, purevars>>

ActivationNext == ActivationInstall \/ ActivationSetActive \/ ActivationGetActive

ActivationSpec == ActivationInit /\ [][ActivationNext]_vars

(***************************************************************************)
(* The release catalog: godot_releases, a step per await of its loop.      *)
(***************************************************************************)
installervars == <<installs, dlcache, active, binlink, scenario>>

GodotReleasesStart ==
    /\ reg.pc = "idle"
    /\ \E force_refresh \in BOOLEAN :
          LET out == godot_releases_start(cache, now, force_refresh)
          IN  /\ reg' = out.reg
              /\ last' = Done("godot_releases", Some(force_refresh),
                              IF IsSome(out.res) THEN Unwrap(out.res) ELSE Pending, {})
    /\ UNCHANGED <<installervars, purevars, cache, now, server>>

SendRequest ==
    /\ reg.pc = "fetch"
    /\ reg.requests < server.pages
    /\ \E response \in Responses(server, Unwrap(reg.next_url)) :
          reg' = [reg EXCEPT !.pc = "await", !.requests = @ + 1, !.response = Some(response)]
    /\ UNCHANGED <<installervars, purevars, last, cache, now, server>>

ReceivePage ==
    /\ reg.pc = "await"
    /\ LET out == receive_page(reg)
       IN  /\ reg' = out.reg
           /\ last' = IF IsSome(out.res)
                      THEN Done("godot_releases", Some(reg.force), Unwrap(out.res), {})
                      ELSE last
    /\ UNCHANGED <<installervars, purevars, cache, now, server>>

GodotReleasesFinish ==
    /\ reg.pc = "parse"
    /\ \E outcome \in SaveOutcomes :
          LET out == godot_releases_finish(cache, now, reg.releases, outcome)
          IN  /\ cache' = out.cache
              /\ last' = Done("godot_releases", Some(reg.force), out.res, Unparsed(reg.releases))
    /\ reg' = Returned(reg)
    /\ UNCHANGED <<installervars, purevars, now, server>>

\* The system clock is set, forwards or backwards.
ClockChange ==
    /\ \E t \in Instants \ {now} : now' = t
    /\ UNCHANGED <<installervars, purevars, last, cache, reg, server>>

\* A cache file left by an earlier run or edited by hand: a list in
\* descending order.
StaleCatalog == parse_releases(<<RecRc, RecStable>>)

\* The data directory is new, or holds a cache file already.
RegistryInit ==
    /\ installs = <<>>
    /\ dlcache = <<>>
    /\ active = Absent
    /\ binlink = Absent
    /\ last = Done("new", None, Pending, {})
    /\ scenario = NoScenario
    /\ cache \in {None, CacheFile(0, Some(StaleCatalog))}
    /\ now = 0
    /\ reg = IdleReg
    /\ server = SmallServer
    /\ LibraryUnused

RegistryNext ==
    \/ GodotReleasesStart
    \/ SendRequest
    \/ ReceivePage
    \/ GodotReleasesFinish
    \/ ClockChange

RegistrySpec == RegistryInit /\ [][RegistryNext]_vars

\* The paging loop alone, against full pages.
PagingInit ==
    /\ installs = <<>>
    /\ dlcache = <<>>
    /\ active = Absent
    /\ binlink = Absent
    /\ last = Done("setup", None, Ok("unit"), {})
    /\ scenario = NoScenario
    /\ cache = None
    /\ now = 0
    /\ reg = IdleReg
    /\ server = BulkServer
    /\ LibraryUnused

PagingNext ==
    \/ GodotReleasesStart
    \/ SendRequest
    \/ ReceivePage

PagingSpec == PagingInit /\ [][PagingNext]_vars

(***************************************************************************)
(* github.rs and godot.rs: the asset of a release for a platform           *)
(***************************************************************************)
Pat_win64 == <<"w", "i", "n", "6", "4">>
Pat_win32 == <<"w", "i", "n", "3", "2">>
Pat_macos == <<"m", "a", "c", "o", "s">>
Pat_linux_dot_x86_64 == <<"l", "i", "n", "u", "x", ".", "x", "8", "6", "_", "6", "4">>
Pat_linux_us_x86_64 == <<"l", "i", "n", "u", "x", "_", "x", "8", "6", "_", "6", "4">>
Pat_linux == <<"l", "i", "n", "u", "x">>
Pat_linux_dot_x86_32 == <<"l", "i", "n", "u", "x", ".", "x", "8", "6", "_", "3", "2">>
Pat_linux_us_x86_32 == <<"l", "i", "n", "u", "x", "_", "x", "8", "6", "_", "3", "2">>
Pat_linux_dot_arm32 == <<"l", "i", "n", "u", "x", ".", "a", "r", "m", "3", "2">>
Pat_linux_us_arm32 == <<"l", "i", "n", "u", "x", "_", "a", "r", "m", "3", "2">>
Pat_linux_dot_arm64 == <<"l", "i", "n", "u", "x", ".", "a", "r", "m", "6", "4">>
Pat_linux_us_arm64 == <<"l", "i", "n", "u", "x", "_", "a", "r", "m", "6", "4">>
Str_godot == <<"g", "o", "d", "o", "t">>
Str_mono == <<"m", "o", "n", "o">>
Str_dot_zip == <<".", "z", "i", "p">>

\* get_platform_patterns: the match arms in their order.
get_platform_patterns(os, arch) ==
    CASE os = "windows" /\ arch = "x86_64" -> <<Pat_win64>>
      [] os = "windows" /\ arch = "x86" -> <<Pat_win32, Pat_win64>>
      [] os = "macos" -> <<Pat_macos>>
      [] os = "linux" /\ arch = "x86_64" -> <<Pat_linux_dot_x86_64, Pat_linux_us_x86_64, Pat_linux>>
      [] os = "linux" /\ arch = "x86" ->
            <<Pat_linux_dot_x86_32, Pat_linux_us_x86_32, Pat_linux_dot_x86_64, Pat_linux_us_x86_64, Pat_linux>>
      [] os = "linux" /\ arch = "arm" ->
            <<Pat_linux_dot_arm32, Pat_linux_us_arm32, Pat_linux_dot_arm64, Pat_linux_us_arm64, Pat_linux>>
      [] os = "linux" /\ arch = "aarch64" ->
            <<Pat_linux_dot_arm64, Pat_linux_us_arm64, Pat_linux_dot_x86_64, Pat_linux_us_x86_64, Pat_linux>>
      [] os = "windows" -> <<Pat_win64, Pat_win32>>
      [] os = "linux" -> <<Pat_linux_dot_x86_64, Pat_linux>>
      [] OTHER -> <<Pat_linux_dot_x86_64, Pat_linux>>

\* str::contains.
Contains(s, p) == \E i \in 0..(Len(s) - Len(p)) : SubSeq(s, i + 1, i + Len(p)) = p

\* The closure of find_godot_asset: the asset is the one for the pattern.
AssetMatches(asset, pattern, is_dotnet) ==
    LET name == ToLower(asset.name)
        has_platform == Contains(name, pattern)
        has_godot == Contains(name, Str_godot)
        has_mono == Contains(name, Str_mono)
        is_zip == EndsWith(name, Str_dot_zip)
    IN  has_platform /\ has_godot /\ is_zip /\ (is_dotnet = has_mono)

\* Iterator::find: the first index of the list the predicate holds at.
FirstIndex(S) == CHOOSE i \in S : \A j \in S : i <= j

RECURSIVE FindByPatterns(_, _, _)
FindByPatterns(assets, is_dotnet, platform_patterns) ==
    IF platform_patterns = <<>> THEN Err("no matching asset")
    ELSE LET found == {i \in 1..Len(assets) :
                          AssetMatches(assets[i], Head(platform_patterns), is_dotnet)}
         IN  IF found # {} THEN Ok(assets[FirstIndex(found)])
             ELSE FindByPatterns(assets, is_dotnet, Tail(platform_patterns))

\* find_godot_asset that takes the first asset matching any of the patterns.
find_godot_asset_any_pattern(assets, is_dotnet, os, arch) ==
    LET platform_patterns == get_platform_patterns(os, arch)
        found == {i \in 1..Len(assets) :
                     \E k \in 1..Len(platform_patterns) :
                        AssetMatches(assets[i], platform_patterns[k], is_dotnet)}
    IN  IF assets = <<>> THEN Err("no assets")
        ELSE IF found # {} THEN Ok(assets[FirstIndex(found)])
        ELSE Err("no matching asset")

find_godot_asset(assets, is_dotnet, os, arch) ==
    IF assets = <<>> THEN Err("no assets")
    ELSE FindByPatterns(assets, is_dotnet, get_platform_patterns(os, arch))

Name_linux64 == <<"G", "o", "d", "o", "t", "_", "l", "i", "n", "u", "x", ".", "x", "8", "6", "_", "6", "4", ".", "z", "i", "p">>
Name_mono_linux64 == <<"G", "o", "d", "o", "t", "_", "m", "o", "n", "o", "_", "l", "i", "n", "u", "x", "_", "x", "8", "6", "_", "6", "4", ".", "z", "i", "p">>
Name_upper_arm64 == <<"G", "O", "D", "O", "T", "_", "L", "I", "N", "U", "X", ".", "A", "R", "M", "6", "4", ".", "Z", "I", "P">>
Name_win64 == <<"G", "o", "d", "o", "t", "_", "w", "i", "n", "6", "4", ".", "e", "x", "e", ".", "z", "i", "p">>
Name_win32 == <<"G", "o", "d", "o", "t", "_", "w", "i", "n", "3", "2", ".", "e", "x", "e", ".", "z", "i", "p">>
Name_linux64_tar == <<"G", "o", "d", "o", "t", "_", "l", "i", "n", "u", "x", ".", "x", "8", "6", "_", "6", "4", ".", "t", "a", "r">>
Name_macos == <<"G", "o", "d", "o", "t", "_", "m", "a", "c", "o", "s", ".", "u", "n", "i", "v", "e", "r", "s", "a", "l", ".", "z", "i", "p">>
Name_editor_linux == <<"e", "d", "i", "t", "o", "r", "_", "l", "i", "n", "u", "x", ".", "z", "i", "p">>

AssetNames ==
    {Name_linux64, Name_mono_linux64, Name_upper_arm64, Name_win64, Name_win32,
     Name_linux64_tar, Name_macos, Name_editor_linux}

AssetNamed(name) == [name |-> name, browser_download_url |-> <<"u", "/">> \o name, size |-> 1000]

MaxAssets == 3

\* The asset lists of a release: up to MaxAssets assets, no name twice.
AssetLists ==
    UNION {{l \in [1..n -> {AssetNamed(x) : x \in AssetNames}] :
               \A i, j \in 1..n : l[i] = l[j] => i = j} : n \in 0..MaxAssets}

Platforms ==
    {<<"windows", "x86_64">>, <<"windows", "x86">>, <<"windows", "aarch64">>,
     <<"macos", "aarch64">>, <<"linux", "x86_64">>, <<"linux", "x86">>,
     <<"linux", "aarch64">>, <<"freebsd", "x86_64">>}

InstallerUnused ==
    /\ installs = <<>>
    /\ dlcache = <<>>
    /\ active = Absent
    /\ binlink = Absent
    /\ last = Done("setup", None, Ok("unit"), {})
    /\ scenario = NoScenario

AssetInit ==
    /\ InstallerUnused
    /\ RegistryUnused
    /\ fsync = NoSync
    /\ call \in {[fn |-> "find_godot_asset", assets |-> l, is_dotnet |-> d,
                  os |-> p[1], arch |-> p[2], out |-> Pending] :
                    l \in AssetLists, d \in BOOLEAN, p \in Platforms}

FindGodotAsset ==
    /\ call.fn = "find_godot_asset"
    /\ call.out = Pending
    /\ call' = [call EXCEPT !.out = find_godot_asset(call.assets, call.is_dotnet,
                                                      call.os, call.arch)]
    /\ UNCHANGED <<installervars, regvars, last, fsync>>

AssetNext == FindGodotAsset

AssetSpec == AssetInit /\ [][AssetNext]_vars

(***************************************************************************)
(* file_sync.rs: the directory synchronizer.                               *)
(*                                                                         *)
(* A directory tree is a function from relative paths (sequences of        *)
(* components) to nodes; the empty path is the base directory itself, and  *)
(* a tree with an empty domain is a base directory that does not exist.    *)
(***************************************************************************)
DirNode == [is_dir |-> TRUE, contents |-> <<>>]
FileNode(bytes) == [is_dir |-> FALSE, contents |-> bytes]

\* The contents of the files of this model, as byte sequences.
FileContents == {<<1>>, <<2>>}

\* The relative paths of this model: two entries in the base directory, the
\* first of which may be a directory with two entries.
TreePaths == {<<>>, <<"a">>, <<"b">>, <<"a", "a">>, <<"a", "b">>}

ParentPath(p) == SubSeq(p, 1, Len(p) - 1)

WellFormedTree(t) ==
    \A p \in DOMAIN t :
        IF p = <<>> THEN t[p].is_dir
        ELSE ParentPath(p) \in DOMAIN t /\ t[ParentPath(p)].is_dir

Trees ==
    UNION {{t \in [D -> {DirNode} \cup {FileNode(c) : c \in FileContents}] : WellFormedTree(t)} :
              D \in SUBSET TreePaths}

\* Path::starts_with compares whole components: StartsWith over the sequence of
\* components.

\* The component names of TreePaths, in byte order.
TreeNames == <<"a", "b">>

NameRank(c) == CHOOSE i \in 1..Len(TreeNames) : TreeNames[i] = c

\* Ord for Path: component by component, a proper prefix first.
RECURSIVE CmpPath(_, _)
CmpPath(p, q) ==
    IF p = <<>> THEN (IF q = <<>> THEN 0 ELSE -1)
    ELSE IF q = <<>> THEN 1
    ELSE IF Head(p) # Head(q) THEN CmpInt(NameRank(Head(p)), NameRank(Head(q)))
    ELSE CmpPath(Tail(p), Tail(q))

\* DefaultHasher over the contents, to 64 bits: equal contents have equal
\* hashes.  The hasher is abstracted to a polynomial checksum.
RECURSIVE HashBytes(_, _)
HashBytes(bytes, h) ==
    IF bytes = <<>> THEN h
    ELSE HashBytes(Tail(bytes), (h * 31 + Head(bytes) + 7) % 65536)

FileEntry(p, node) ==
    [rel_path |-> p,
     hash |-> IF node.is_dir THEN 0 ELSE HashBytes(node.contents, Len(node.contents)),
     is_dir |-> node.is_dir]

\* sort_by(|a, b| a.rel_path.cmp(&b.rel_path)) over entries of distinct paths.
RECURSIVE SortByPath(_)
SortByPath(entries) ==
    IF entries = {} THEN <<>>
    ELSE LET least == CHOOSE e \in entries :
                          \A f \in entries : CmpPath(e.rel_path, f.rel_path) <= 0
         IN  <<least>> \o SortByPath(entries \ {least})

SeqRange(l) == {l[i] : i \in 1..Len(l)}

\* A list left in the order it has.
ReverseSeqKept(l) == l

\* The list in the opposite order: a list sorted ascending read as sorted by
\* the reversed comparison.
ReverseSeq(l) == [i \in 1..Len(l) |-> l[Len(l) + 1 - i]]

\* get_file_list: every entry below the base, the base itself skipped; nothing
\* when the base does not exist.  WalkDir yields parents before children; the
\* callers sort the list.
get_file_list(tree) ==
    SortByPath({FileEntry(p, tree[p]) : p \in (DOMAIN tree) \ {<<>>}})

\* filter_file_list: includes and excludes are Option<&[PathBuf]>, here an
\* Option of a set of paths.
PassesFilter(rel_path, includes, excludes) ==
    /\ ~(IsSome(excludes) /\ \E ex \in Unwrap(excludes) : StartsWith(rel_path, ex))
    /\ (IsSome(includes)
           => \E inc \in Unwrap(includes) :
                  StartsWith(rel_path, inc) \/ StartsWith(inc, rel_path))

filter_file_list(list, includes, excludes) ==
    SelectSeq(list, LAMBDA entry : PassesFilter(entry.rel_path, includes, excludes))

\* fs::remove_dir_all: the directory and everything below it.
remove_dir_all(tree, p) ==
    IF p \in DOMAIN tree /\ tree[p].is_dir
    THEN Some([q \in {x \in DOMAIN tree : ~StartsWith(x, p)} |-> tree[q]])
    ELSE None

\* fs::remove_file
remove_file(tree, p) ==
    IF p \in DOMAIN tree /\ ~tree[p].is_dir
    THEN Some([q \in (DOMAIN tree) \ {p} |-> tree[q]])
    ELSE None

PathPrefixes(p) == {SubSeq(p, 1, n) : n \in 0..Len(p)}

\* fs::create_dir_all: the directory and its missing ancestors; fails when a
\* file is in the way.
create_dir_all(tree, p) ==
    IF \E q \in PathPrefixes(p) : q \in DOMAIN tree /\ ~tree[q].is_dir
    THEN None
    ELSE Some([q \in (DOMAIN tree) \cup PathPrefixes(p) |->
                   IF q \in DOMAIN tree THEN tree[q] ELSE DirNode])

\* fs::copy of the file at p of the source tree to p of the destination tree:
\* creates or overwrites the file; fails when the destination's parent is not a
\* directory or a directory is in the way.
fs_copy(source, tree, p) ==
    IF /\ p \in DOMAIN source /\ ~source[p].is_dir
       /\ ParentPath(p) \in DOMAIN tree /\ tree[ParentPath(p)].is_dir
       /\ ~(p \in DOMAIN tree /\ tree[p].is_dir)
    THEN Some([q \in (DOMAIN tree) \cup {p} |-> IF q = p THEN source[p] ELSE tree[q]])
    ELSE None

\* What a run of sync_recursive has done so far: its result, the destination
\* tree, and the numbers of remove_dir_all / remove_file calls (deletes),
\* fs::copy calls (copies) and create_dir_all calls (mkdirs), and the calls
\* themselves in the order they were made (ops).
SyncState(res, tree, deletes, copies, mkdirs) ==
    [res |-> res, tree |-> tree, deletes |-> deletes, copies |-> copies, mkdirs |-> mkdirs,
     ops |-> <<>>]

\* One file-system call of a run: its kind, the relative path it was made on
\* and whether the parent directory of that path existed when it was made.
SyncOp(kind, tree, p) ==
    [kind |-> kind, path |-> p,
     parent |-> ParentPath(p) \in DOMAIN tree /\ tree[ParentPath(p)].is_dir]

\* The first loop: every destination entry that equals no source entry is
\* removed; `?` ends the run at the first failure.
RECURSIVE DeleteLoop(_, _, _, _)
DeleteLoop(filtered_dest_list, filtered_source_list, i, st) ==
    IF i > Len(filtered_dest_list) \/ ~IsOk(st.res) THEN st
    ELSE LET dest_entry == filtered_dest_list[i]
             is_matching == \E k \in 1..Len(filtered_source_list) :
                                filtered_source_list[k] = dest_entry
             removed == IF dest_entry.is_dir
                        THEN remove_dir_all(st.tree, dest_entry.rel_path)
                        ELSE remove_file(st.tree, dest_entry.rel_path)
         IN  IF is_matching
             THEN DeleteLoop(filtered_dest_list, filtered_source_list, i + 1, st)
             ELSE IF IsSome(removed)
             THEN DeleteLoop(filtered_dest_list, filtered_source_list, i + 1,
                             [st EXCEPT !.tree = Unwrap(removed), !.deletes = @ + 1,
                                        !.ops = Append(@, SyncOp("remove", st.tree,
                                                                 dest_entry.rel_path))])
             ELSE [st EXCEPT !.res = Err("Failed to remove target"), !.deletes = @ + 1,
                             !.ops = Append(@, SyncOp("remove", st.tree, dest_entry.rel_path))]

\* The second loop: every source entry is created or copied.
RECURSIVE CopyLoop(_, _, _, _)
CopyLoop(source, filtered_source_list, i, st) ==
    IF i > Len(filtered_source_list) \/ ~IsOk(st.res) THEN st
    ELSE LET source_entry == filtered_source_list[i]
             made == create_dir_all(st.tree, source_entry.rel_path)
             copied == fs_copy(source, st.tree, source_entry.rel_path)
         IN  IF source_entry.is_dir
             THEN IF IsSome(made)
                  THEN CopyLoop(source, filtered_source_list, i + 1,
                                [st EXCEPT !.tree = Unwrap(made), !.mkdirs = @ + 1,
                                           !.ops = Append(@, SyncOp("create_dir_all", st.tree,
                                                                    source_entry.rel_path))])
                  ELSE [st EXCEPT !.res = Err("Failed to create target directory"),
                                  !.mkdirs = @ + 1,
                                  !.ops = Append(@, SyncOp("create_dir_all", st.tree,
                                                           source_entry.rel_path))]
             ELSE IF IsSome(copied)
                  THEN CopyLoop(source, filtered_source_list, i + 1,
                                [st EXCEPT !.tree = Unwrap(copied), !.copies = @ + 1,
                                           !.ops = Append(@, SyncOp("copy", st.tree,
                                                                    source_entry.rel_path))])
                  ELSE [st EXCEPT !.res = Err("Failed to copy"), !.copies = @ + 1,
                                  !.ops = Append(@, SyncOp("copy", st.tree,
                                                           source_entry.rel_path))]

\* sync_recursive with the exclude filter of the destination list as a
\* parameter.
sync_with(source, dest, includes, excludes, dest_excludes) ==
    LET filtered_source_list ==
            SortByPath(SeqRange(filter_file_list(get_file_list(source), includes, excludes)))
        filtered_dest_list ==
            ReverseSeq(SortByPath(SeqRange(
                filter_file_list(get_file_list(dest), includes, dest_excludes))))
        deleted == DeleteLoop(filtered_dest_list, filtered_source_list, 1,
                              SyncState(Ok("unit"), dest, 0, 0, 0))
    IN  CopyLoop(source, filtered_source_list, 1, deleted)

sync_recursive_filtering_dest(source, dest, includes, excludes) ==
    sync_with(source, dest, includes, excludes, excludes)

sync_recursive(source, dest, includes, excludes) ==
    sync_with(source, dest, includes, excludes, None)

\* The filters the callers pass.
IncludeFilters == {None, Some({<<"a", "b">>}), Some({<<"b">>})}
ExcludeFilters == {None, Some({<<"a", "a">>})}

MaxRuns == 2

SyncInit ==
    /\ InstallerUnused
    /\ RegistryUnused
    /\ call = NoCall
    /\ fsync \in {[run |-> 0, source |-> s, dest |-> d, before |-> d,
                   includes |-> inc, excludes |-> exc,
                   res |-> Pending, deletes |-> 0, copies |-> 0, mkdirs |-> 0, ops |-> <<>>] :
                     s \in Trees, d \in Trees, inc \in IncludeFilters, exc \in ExcludeFilters}

\* One run of sync_recursive(source, dest, includes, excludes); a caller runs
\* it again only after a run that succeeded.
SyncRecursive ==
    /\ fsync.run < MaxRuns
    /\ fsync.run > 0 => IsOk(fsync.res)
    /\ LET st == sync_recursive(fsync.source, fsync.dest, fsync.includes, fsync.excludes)
       IN  fsync' = [fsync EXCEPT !.run = @ + 1, !.before = fsync.dest, !.dest = st.tree,
                                  !.res = st.res, !.deletes = st.deletes,
                                  !.copies = st.copies, !.mkdirs = st.mkdirs, !.ops = st.ops]
    /\ UNCHANGED <<installervars, regvars, last, call>>

SyncNext == SyncRecursive

SyncSpec == SyncInit /\ [][SyncNext]_vars

(***************************************************************************)
(* Ord, PartialOrd and PartialEq of GodotVersion                           *)
(***************************************************************************)
Str_4_0_alpha1 == <<"4", ".", "0", "-", "a", "l", "p", "h", "a", "1">>
Str_4_0_beta1 == <<"4", ".", "0", "-", "b", "e", "t", "a", "1">>
Str_4_0_rc1 == <<"4", ".", "0", "-", "r", "c", "1">>
Str_4_0_stable == <<"4", ".", "0", "-", "s", "t", "a", "b", "l", "e">>
Str_4_1_stable == <<"4", ".", "1", "-", "s", "t", "a", "b", "l", "e">>
Str_4_2_dev1 == <<"4", ".", "2", "-", "d", "e", "v", "1">>
Str_4_0_beta9 == <<"4", ".", "0", "-", "b", "e", "t", "a", "9">>
Str_4_0_custom2 == <<"4", ".", "0", "-", "c", "u", "s", "t", "o", "m", "2">>
Str_4_0_rc == <<"4", ".", "0", "-", "r", "c">>
Str_4_0_rc0 == <<"4", ".", "0", "-", "r", "c", "0">>
Str_4_0_RC1 == <<"4", ".", "0", "-", "R", "C", "1">>
Str_4_2_0_1 == <<"4", ".", "2", ".", "0", ".", "1">>

\* The version strings whose identifiers are compared: the tags of every rank
\* with and without a number, in either case, and numeric components that
\* differ at each position.
OrderStrings ==
    {Str_4_0_alpha1, Str_4_0_beta1, Str_4_0_rc1, Str_4_0_stable, Str_4_1_stable, Str_4_2_dev1,
     Str_4_2, Str_4_0_beta9, Str_4_0_custom2, Str_4_0_rc, Str_4_0_rc0, Str_4_0_RC1, Str_4_2_0_1}

\* The strings that are also parsed as the .NET variant.
DotnetStrings == {Str_4_2, Str_4_0_rc1}

OrderVersions ==
    {Unwrap(GodotVersionNew(s, FALSE)) : s \in OrderStrings}
    \cup {Unwrap(GodotVersionNew(s, TRUE)) : s \in DotnetStrings}

\* PartialOrd: partial_cmp is Some(cmp), and lt, le, gt are its provided methods.
VersionLt(a, b) == VersionCmp(a, b) = -1
VersionLe(a, b) == VersionCmp(a, b) \in {-1, 0}
VersionGt(a, b) == VersionCmp(a, b) = 1

\* #[derive(PartialEq)]: field by field.
VersionEq(a, b) ==
    /\ a.major = b.major
    /\ a.minor = b.minor
    /\ a.patch = b.patch
    /\ a.sub_patch = b.sub_patch
    /\ a.release_tag = b.release_tag
    /\ a.tag_version = b.tag_version
    /\ a.extra = b.extra
    /\ a.is_dotnet = b.is_dotnet

OrderInit ==
    /\ InstallerUnused
    /\ RegistryUnused
    /\ fsync = NoSync
    /\ call \in {[fn |-> "cmp", a |-> x, b |-> y, c |-> z, out |-> Pending] :
                    x \in OrderVersions, y \in OrderVersions, z \in OrderVersions}

\* The comparisons of three identifiers a, b, c.
Compare ==
    /\ call.fn = "cmp"
    /\ call.out = Pending
    /\ call' = [call EXCEPT !.out =
                   Ok([ab |-> VersionCmp(call.a, call.b),
                       ba |-> VersionCmp(call.b, call.a),
                       lt_ab |-> VersionLt(call.a, call.b),
                       gt_ab |-> VersionGt(call.a, call.b),
                       eq_ab |-> VersionEq(call.a, call.b),
                       le_ab |-> VersionLe(call.a, call.b),
                       le_bc |-> VersionLe(call.b, call.c),
                       le_ac |-> VersionLe(call.a, call.c)])]
    /\ UNCHANGED <<installervars, regvars, last, fsync>>

OrderNext == Compare

OrderSpec == OrderInit /\ [][OrderNext]_vars

(***************************************************************************)
(* GodotVersion::new, Display and FromStr: parse, display, parse again     *)
(***************************************************************************)
Str_dotnet_suffix == <<" ", "LPAREN", ".", "N", "E", "T", "RPAREN">>

\* impl fmt::Display for GodotVersion
fmt(v) ==
    IF v.is_dotnet THEN as_godot_version_str(v) \o Str_dotnet_suffix
    ELSE as_godot_version_str(v)

\* impl FromStr for GodotVersion
from_str(s) == GodotVersionNew(s, FALSE)

\* anyhow::Result<GodotVersion> of GodotVersion::new.
NewResult(parsed) ==
    IF IsSome(parsed) THEN Ok(Unwrap(parsed)) ELSE Err("Invalid version format")

Str_4_2_0_0 == <<"4", ".", "2", ".", "0", ".", "0">>
Str_4_2_0_stable == <<"4", ".", "2", ".", "0", "-", "s", "t", "a", "b", "l", "e">>
Str_4_3_0_1 == <<"4", ".", "3", ".", "0", ".", "1">>
Str_4_2_1 == <<"4", ".", "2", ".", "1">>
Str_4_1_0_rc_1 == <<"4", ".", "1", ".", "0", "-", "r", "c", ".", "1">>
Str_minor_overflow == <<"4", ".", "4", "2", "9", "4", "9", "6", "7", "2", "9", "6">>
Str_tag_overflow == <<"4", ".", "2", "-", "r", "c", "4", "2", "9", "4", "9", "6", "7", "2", "9", "6">>
Str_major_overflow == <<"4", "2", "9", "4", "9", "6", "7", "2", "9", "6">>

\* The strings parsed: every string of ScenarioStrings and the strings of the
\* tests, with components that do not fit u32.
ParseInputs ==
    ScenarioStrings
    \cup {Str_4_2, Str_4_2_0_0, Str_4_2_0_stable, Str_4_3_0_1, Str_4_2_1, Str_4_1_0_rc_1,
          Str_4_3_rc1, Str_minor_overflow, Str_tag_overflow, Str_major_overflow}

\* The numeric components VERSION_REGEX finds in s (c: its captures): how many
\* there are, and how many characters of s they and the leading v take.
NumericCount(c) ==
    1 + (IF IsSome(c.g2) THEN 1 ELSE 0) + (IF IsSome(c.g3) THEN 1 ELSE 0)
      + (IF IsSome(c.g4) THEN 1 ELSE 0)

OptLen(g) == IF IsSome(g) THEN 1 + Len(Unwrap(g)) ELSE 0

NumericLen(s, c) ==
    (IF s[1] = "v" THEN 1 ELSE 0) + Len(c.g1) + OptLen(c.g2) + OptLen(c.g3) + OptLen(c.g4)

InsertAt(s, n, t) == SubSeq(s, 1, n) \o t \o SubSeq(s, n + 1, Len(s))

\* The strings that differ from s only by trailing zero components (up to the
\* four components of the grammar) and/or an explicit -stable tag.
CanonicalVariants(s) ==
    IF ~IsSome(VersionCaptures(s)) THEN {}
    ELSE LET c == Unwrap(VersionCaptures(s))
             n == NumericLen(s, c)
             count == NumericCount(c)
             untagged == ~IsSome(c.g5) /\ (c.g7 = <<>> \/ ~IsLetter(c.g7[1]))
             zeros == {<<>>} \cup (IF count < 4 THEN {<<".", "0">>} ELSE {})
                             \cup (IF count < 3 THEN {<<".", "0", ".", "0">>} ELSE {})
             tags == {<<>>} \cup (IF untagged THEN {<<"-">> \o Str_stable} ELSE {})
         IN  {InsertAt(s, n, z \o t) : z \in zeros, t \in tags} \ {s}

NewCall(version_str, is_dotnet, variant) ==
    [fn |-> "new", version_str |-> version_str, is_dotnet |-> is_dotnet, variant |-> variant,
     out |-> Pending, variant_out |-> Pending, shown |-> None, reparsed |-> Pending]

ParseInit ==
    /\ InstallerUnused
    /\ RegistryUnused
    /\ fsync = NoSync
    /\ call \in UNION {{NewCall(s, d, t) : t \in {s} \cup CanonicalVariants(s)} :
                          s \in ParseInputs, d \in BOOLEAN}

\* GodotVersion::new(version_str, is_dotnet), and the same for the variant.
New ==
    /\ call.fn = "new"
    /\ call.out = Pending
    /\ call' = [call EXCEPT
                   !.out = NewResult(GodotVersionNew(call.version_str, call.is_dotnet)),
                   !.variant_out = NewResult(GodotVersionNew(call.variant, call.is_dotnet))]
    /\ UNCHANGED <<installervars, regvars, last, fsync>>

\* to_string() of the identifier.
DisplayVersion ==
    /\ call.fn = "new"
    /\ IsOk(call.out)
    /\ call.shown = None
    /\ call' = [call EXCEPT !.shown = Some(fmt(Unwrap(call.out.val)))]
    /\ UNCHANGED <<installervars, regvars, last, fsync>>

\* The display string parsed again.
Reparse ==
    /\ call.fn = "new"
    /\ IsSome(call.shown)
    /\ call.reparsed = Pending
    /\ call' = [call EXCEPT !.reparsed = NewResult(from_str(Unwrap(call.shown)))]
    /\ UNCHANGED <<installervars, regvars, last, fsync>>

ParseNext == New \/ DisplayVersion \/ Reparse

ParseSpec == ParseInit /\ [][ParseNext]_vars

(***************************************************************************)
(* list_installed over an installations root that holds anything           *)
(***************************************************************************)
Str_godot_4_2 == Str_godot_dash \o Str_4_2
Str_godot_4_2_stable == Str_godot_dash \o Str_4_2_stable
Str_godot_4_3_rc1_dotnet == Str_godot_dash \o Str_4_3_rc1 \o Str_dash_dotnet
Str_godot_x == Str_godot_dash \o <<"x">>

\* The names found in the root: two directories of one identifier, a .NET
\* install, a name with the prefix that does not parse and a name without
\* the prefix.
RootNames == {Str_godot_4_2, Str_godot_4_2_stable, Str_godot_4_3_rc1_dotnet, Str_godot_x,
              Str_4_2_stable}

\* DirEntry::file_type, which does not follow symlinks.
EntryKinds == {"dir", "file", "symlink"}

MaxEntries == 3

\* The installations root: None when it does not exist, else its entries.
Roots ==
    {None} \cup UNION {{Some(f) : f \in [D -> EntryKinds]} :
                          D \in {S \in SUBSET RootNames : Cardinality(S) <= MaxEntries}}

\* list_installed on such a root, read_dir yielding the entries in `order`:
\* the entries that are no directories are skipped before the name is looked
\* at.
list_installed_at(root, order) ==
    IF ~IsSome(root) THEN Ok(<<>>)
    ELSE LET dirs == SelectSeq(order, LAMBDA n : Unwrap(root)[n] = "dir")
         IN  Ok(list_installed([n \in SeqRange(dirs) |-> EmptyDir], dirs))

ListInit ==
    /\ InstallerUnused
    /\ RegistryUnused
    /\ fsync = NoSync
    /\ call \in UNION {{[fn |-> "list_installed", root |-> r, order |-> o, out |-> Pending] :
                           o \in (IF IsSome(r) THEN Orders(DOMAIN Unwrap(r)) ELSE {<<>>})} :
                          r \in Roots}

ListInstalledAt ==
    /\ call.fn = "list_installed"
    /\ call.out = Pending
    /\ call' = [call EXCEPT !.out = list_installed_at(call.root, call.order)]
    /\ UNCHANGED <<installervars, regvars, last, fsync>>

ListNext == ListInstalledAt

ListSpec == ListInit /\ [][ListNext]_vars

(***************************************************************************)
(* Two processes in ensure_installed(V, false) on one data directory.      *)
(* Each file-system call of ensure_installed, download_asset,              *)
(* install_version_from_archive and extract_zip is a step of its own;      *)
(* nothing in the code holds a lock across them.  The client finds the     *)
(* release and the asset, and the server sends the archive in full.        *)
(***************************************************************************)
Procs == {1, 2}

\* A process of ensure_installed: where it is, the next zip entry, whether
\* list_installed reported V to it and the directory was then complete, its
\* result, and whether the directory was complete when it returned.
ProcStart ==
    [pc |-> "list_installed", i |-> 1, listed |-> FALSE, listed_complete |-> FALSE,
     res |-> Pending, complete |-> FALSE]

\* The install directory holds every entry of the archive, each in full.
Complete(inst, install_path) ==
    /\ install_path \in DOMAIN inst
    /\ inst[install_path].files = SeqRange(GoodArchive.entries)
    /\ inst[install_path].torn = {}

ConcurrentInit ==
    /\ installs = <<>>
    /\ \E v \in Requested :
          /\ dlcache \in {<<>>, PutKey(<<>>, v, GoodArchive)}
          /\ scenario = [version |-> Some(v), procs |-> [p \in Procs |-> ProcStart]]
    /\ active = Absent
    /\ binlink = Absent
    /\ last = Done("setup", None, Ok("unit"), {})
    /\ RegistryUnused
    /\ LibraryUnused

\* The process p moves on with the fields of its record changed to `next`.
ProcStep(p, next) ==
    /\ scenario' = [scenario EXCEPT !.procs[p] = next]
    /\ UNCHANGED <<active, binlink, last, regvars, purevars>>

\* if !force && list_installed(config)?.contains(version)
ProcListInstalled(p) ==
    LET me == scenario.procs[p]
        version == Unwrap(scenario.version)
    IN  /\ me.pc = "list_installed"
        /\ IF version \in InstalledVersions(installs)
           THEN ProcStep(p, [me EXCEPT !.pc = "get_executable_path", !.listed = TRUE,
                                       !.listed_complete =
                                           Complete(installs, godot_installation_name(version))])
           ELSE ProcStep(p, [me EXCEPT !.pc = "cache_path_exists"])
        /\ UNCHANGED <<installs, dlcache>>

\* return get_executable_path(config, version)
ProcGetExecutablePath(p) ==
    LET me == scenario.procs[p]
        version == Unwrap(scenario.version)
    IN  /\ me.pc = "get_executable_path"
        /\ ProcStep(p, [me EXCEPT !.pc = "done",
                                  !.res = get_executable_path(installs, version),
                                  !.complete =
                                      Complete(installs, godot_installation_name(version))])
        /\ UNCHANGED <<installs, dlcache>>

\* godot_releases, find_godot_asset, then if !cache_path.exists()
ProcCachePathExists(p) ==
    LET me == scenario.procs[p]
        version == Unwrap(scenario.version)
    IN  /\ me.pc = "cache_path_exists"
        /\ ProcStep(p, [me EXCEPT !.pc = IF version \in DOMAIN dlcache
                                         THEN "remove_dir_all" ELSE "file_create"])
        /\ UNCHANGED <<installs, dlcache>>

\* download_asset: File::create(path) makes or truncates the file.
ProcFileCreate(p) ==
    LET me == scenario.procs[p]
        version == Unwrap(scenario.version)
    IN  /\ me.pc = "file_create"
        /\ dlcache' = PutKey(dlcache, version, TruncatedArchive)
        /\ ProcStep(p, [me EXCEPT !.pc = "write_all"])
        /\ UNCHANGED installs

\* download_asset: the chunks are written and the file is whole.
ProcWriteAll(p) ==
    LET me == scenario.procs[p]
        version == Unwrap(scenario.version)
    IN  /\ me.pc = "write_all"
        /\ dlcache' = PutKey(dlcache, version, GoodArchive)
        /\ ProcStep(p, [me EXCEPT !.pc = "remove_dir_all"])
        /\ UNCHANGED installs

\* install_version_from_archive: if install_path.exists() { remove_dir_all }
ProcRemoveDirAll(p) ==
    LET me == scenario.procs[p]
        install_path == godot_installation_name(Unwrap(scenario.version))
    IN  /\ me.pc = "remove_dir_all"
        /\ installs' = IF install_path \in DOMAIN installs
                       THEN RemoveKey(installs, install_path) ELSE installs
        /\ ProcStep(p, [me EXCEPT !.pc = "create_dir_all"])
        /\ UNCHANGED dlcache

\* install_version_from_archive: fs::create_dir_all(&install_path)
ProcCreateDirAll(p) ==
    LET me == scenario.procs[p]
        install_path == godot_installation_name(Unwrap(scenario.version))
    IN  /\ me.pc = "create_dir_all"
        /\ installs' = IF install_path \in DOMAIN installs
                       THEN installs ELSE PutKey(installs, install_path, EmptyDir)
        /\ ProcStep(p, [me EXCEPT !.pc = "open_archive"])
        /\ UNCHANGED dlcache

\* extract_zip: File::open and ZipArchive::new fail on a file that is not
\* whole.
ProcOpenArchive(p) ==
    LET me == scenario.procs[p]
        version == Unwrap(scenario.version)
    IN  /\ me.pc = "open_archive"
        /\ IF dlcache[version].whole
           THEN ProcStep(p, [me EXCEPT !.pc = "extract_entry", !.i = 1])
           ELSE ProcStep(p, [me EXCEPT !.pc = "done", !.res = Err("extract")])
        /\ UNCHANGED <<installs, dlcache>>

\* extract_zip: one entry; the parent directory is created when it is gone,
\* and the entry cannot be read while the file is truncated.
ProcExtractEntry(p) ==
    LET me == scenario.procs[p]
        version == Unwrap(scenario.version)
        install_path == godot_installation_name(version)
        dir == IF install_path \in DOMAIN installs THEN installs[install_path] ELSE EmptyDir
        entry == GoodArchive.entries[me.i]
    IN  /\ me.pc = "extract_entry"
        /\ IF ~dlcache[version].whole
           THEN /\ ProcStep(p, [me EXCEPT !.pc = "done", !.res = Err("extract")])
                /\ UNCHANGED installs
           ELSE /\ installs' = PutKey(installs, install_path,
                                      [files |-> dir.files \cup {entry}, torn |-> dir.torn])
                /\ ProcStep(p, [me EXCEPT !.pc = IF me.i = Len(GoodArchive.entries)
                                                 THEN "make_executable" ELSE "extract_entry",
                                          !.i = me.i + 1])
        /\ UNCHANGED dlcache

\* make_executable reads the install directory; then Ok(install_path).
ProcMakeExecutable(p) ==
    LET me == scenario.procs[p]
        install_path == godot_installation_name(Unwrap(scenario.version))
    IN  /\ me.pc = "make_executable"
        /\ ProcStep(p, [me EXCEPT !.pc = "done",
                                  !.res = IF install_path \in DOMAIN installs
                                          THEN Ok(install_path) ELSE Err("read_dir"),
                                  !.complete = Complete(installs, install_path)])
        /\ UNCHANGED <<installs, dlcache>>

ConcurrentNext ==
    \E p \in Procs :
        \/ ProcListInstalled(p)
        \/ ProcGetExecutablePath(p)
        \/ ProcCachePathExists(p)
        \/ ProcFileCreate(p)
        \/ ProcWriteAll(p)
        \/ ProcRemoveDirAll(p)
        \/ ProcCreateDirAll(p)
        \/ ProcOpenArchive(p)
        \/ ProcExtractEntry(p)
        \/ ProcMakeExecutable(p)

ConcurrentSpec == ConcurrentInit /\ [][ConcurrentNext]_vars

(***************************************************************************)
(* Claims about the installation lifecycle                                 *)
(***************************************************************************)
NonSymlink(entry) == entry.kind \in {"file", "dir"}

Dangling(inst, act) == act.kind = "symlink" /\ Unwrap(act.target) \notin DOMAIN inst

\* C1: a set_active_version call that reaches update_symlink on a link path
\* (the active path once the version is installed, bin/godot once its
\* executable is found) occupied by a plain file or a real directory leaves
\* that entry as it is, warns about it, and does not fail because of it.
C1_ActivationSafety ==
    [][last'.op = "set_active_version"
       => LET install_path == godot_installation_name(Unwrap(last'.arg))
              reached == install_path \in DOMAIN installs
              found == reached /\ IsOk(find_godot_executable(installs, install_path))
          IN  /\ (reached /\ NonSymlink(active))
                    => (active' = active /\ "active" \in last'.warned)
              /\ (found /\ NonSymlink(binlink))
                    => (binlink' = binlink /\ "bin" \in last'.warned)
              /\ found => IsOk(last'.res)]_vars

C1_Witness ==
    /\ last.op = "set_active_version"
    /\ IsOk(last.res)
    /\ last.warned = {"active", "bin"}
    /\ active = PlainFile
    /\ binlink = RealDir

\* C2: from an empty installations root, after installing V list_installed
\* returns [V], and after uninstalling V it returns [].
C2_RoundTrip ==
    /\ scenario.step = 2 => last.res = Ok(<<Unwrap(scenario.version)>>)
    /\ scenario.step = 4 => last.res = Ok(<<>>)

C4_FailedInstallLeavesNoDir ==
    (last.op = "ensure_installed" /\ ~IsOk(last.res) /\ last.res.val = Some("extract"))
        => godot_installation_name(Unwrap(last.arg)) \notin DOMAIN installs

\* C5: get_active_version never returns an error.
C5_GetActiveNeverErr ==
    last.op = "get_active_version" => IsOk(last.res)

(***************************************************************************)
(* Claims about the release catalog                                        *)
(***************************************************************************)
\* The cache file exists and its age at `t` is in [0, 7 days).
Fresh(c, t) ==
    /\ IsSome(c)
    /\ Unwrap(c).mtime <= t
    /\ t - Unwrap(c).mtime < CACHE_VALIDITY_DAYS * Day

C7_SaveBestEffort ==
    [][(reg.pc = "parse" /\ reg'.pc = "idle")
       => /\ IsOk(last'.res)
          /\ Unwrap(last'.res.val) = SortReleases(parse_releases(reg.releases))]_vars

\* C8: the step that handles a failed page request, on whatever page, makes
\* godot_releases return an error and leaves the cache file as it was.
C8_PageFailure ==
    [][(reg.pc = "await" /\ Unwrap(reg.response).kind # "ok" /\ reg' # reg)
       => /\ reg'.pc = "idle"
          /\ last'.op = "godot_releases"
          /\ last'.res.tag = "Err"
          /\ cache' = cache]_vars

\* The second page failed while a cache file with a list was on disk.
C8_Witness ==
    /\ last.op = "godot_releases"
    /\ last.res.tag = "Err"
    /\ last.res.val = Some("status")
    /\ reg.pc = "idle"
    /\ reg.requests = 2
    /\ IsSome(cache)
    /\ IsSome(Unwrap(cache).content)

Count(seq, x) == Cardinality({i \in 1..Len(seq) : seq[i] = x})

\* C9: the catalog godot_releases returns after a fetch has, for every raw
\* record whose tag parses, the standard entry and the .NET entry with that
\* record's assets, as many times as the record was sent, and nothing else.
C9_TwoEntriesPerRecord ==
    [][(reg.pc = "parse" /\ reg'.pc = "idle" /\ IsOk(last'.res))
       => LET raw == reg.releases
              catalog == Unwrap(last'.res.val)
              good == {i \in 1..Len(raw) : IsSome(GodotVersionNew(raw[i].tag_name, FALSE))}
              Entry(i, d) ==
                  [version |-> [Unwrap(GodotVersionNew(raw[i].tag_name, FALSE))
                                   EXCEPT !.is_dotnet = d],
                   assets |-> raw[i].assets]
          IN  /\ Len(catalog) = 2 * Cardinality(good)
              /\ \A i \in good, d \in BOOLEAN :
                    Count(catalog, Entry(i, d))
                        = Cardinality({k \in good : Entry(k, d) = Entry(i, d)})]_vars

\* A fetch of two pages dropped a record and returned the two entries of the
\* other one.
C9_Witness ==
    /\ last.op = "godot_releases"
    /\ IsOk(last.res)
    /\ last.warned = {Str_nightly}
    /\ reg.pc = "idle"
    /\ reg.requests = 2
    /\ Len(Unwrap(last.res.val)) = 2

NoNextLink(response) ==
    ~IsSome(response.link)
    \/ \A i \in 1..Len(Unwrap(response.link)) : Unwrap(response.link)[i].rel # "next"

C11_ResultSorted ==
    (last.op = "godot_releases" /\ IsOk(last.res))
        => LET list == Unwrap(last.res.val)
               stable(d) == {i \in 1..Len(list) :
                                /\ list[i].version.release_tag = Some(Str_stable)
                                /\ list[i].version.is_dotnet = d}
           IN  /\ \A i, j \in 1..Len(list) :
                     i < j => VersionCmp(list[i].version, list[j].version) <= 0
               /\ \A d \in BOOLEAN : \A i \in stable(d) :
                     (\A k \in stable(d) : k <= i)
                        => \A j \in stable(d) :
                              VersionCmp(list[j].version, list[i].version) <= 0

\* The list was read from a cache file that holds it in descending order.
C11_Witness ==
    /\ last.op = "godot_releases"
    /\ IsOk(last.res)
    /\ reg = IdleReg
    /\ cache = CacheFile(0, Some(StaleCatalog))
    /\ Len(Unwrap(last.res.val)) = Len(StaleCatalog)

(***************************************************************************)
(* Claims about asset selection                                            *)
(***************************************************************************)
\* C12: find_godot_asset returns the first asset, in list order, that
\* satisfies the first pattern, in the order of get_platform_patterns, that
\* some asset satisfies, and an error exactly when no asset satisfies any
\* pattern.
C12_AssetSelection ==
    (call.fn = "find_godot_asset" /\ call.out.tag # "Pending")
        => LET patterns == get_platform_patterns(call.os, call.arch)
               Hits(k) == {i \in 1..Len(call.assets) :
                              AssetMatches(call.assets[i], patterns[k], call.is_dotnet)}
               usable == {k \in 1..Len(patterns) : Hits(k) # {}}
           IN  IF usable = {} THEN call.out.tag = "Err"
               ELSE LET k == CHOOSE x \in usable : \A y \in usable : x <= y
                        i == CHOOSE x \in Hits(k) : \A y \in Hits(k) : x <= y
                    IN  IsOk(call.out) /\ Unwrap(call.out.val) = call.assets[i]

\* For 32-bit Windows the win32 asset was taken though the win64 asset comes
\* first in the list.
C12_Witness ==
    /\ call.fn = "find_godot_asset"
    /\ call.os = "windows"
    /\ call.arch = "x86"
    /\ ~call.is_dotnet
    /\ call.assets = <<AssetNamed(Name_win64), AssetNamed(Name_win32)>>
    /\ IsOk(call.out)
    /\ Unwrap(call.out.val) = AssetNamed(Name_win32)

(***************************************************************************)
(* Claims about the directory synchronizer                                 *)
(***************************************************************************)
FilesOf(tree) == {p \in DOMAIN tree : ~tree[p].is_dir}

\* The files of the source that pass filter_file_list.
FilteredFiles(source, includes, excludes) ==
    {p \in FilesOf(source) : PassesFilter(p, includes, excludes)}

C14_SecondRunDoesNothing ==
    (fsync.run = 2 /\ IsOk(fsync.res))
        => /\ fsync.dest = fsync.before
           /\ fsync.copies = 0
           /\ fsync.deletes = 0

(***************************************************************************)
(* Claims about the version model                                          *)
(***************************************************************************)
Compared == call.fn = "cmp" /\ IsOk(call.out)

C16_EqAndOrdOverAllFields ==
    Compared
        => LET o == Unwrap(call.out.val)
           IN  /\ o.eq_ab <=> (call.a = call.b)
               /\ (o.ab = 0) <=> o.eq_ab

\* The rank the claim gives a tag, whatever its case: unknown (0) < dev <
\* alpha < beta < rc < stable.
TagOrder == <<Str_dev, Str_alpha, Str_beta, Str_rc, Str_stable>>

TagClass(v) ==
    LET t == ToLower(Unwrap(v.release_tag))
    IN  IF \E i \in 1..Len(TagOrder) : TagOrder[i] = t
        THEN CHOOSE i \in 1..Len(TagOrder) : TagOrder[i] = t
        ELSE 0

NumericComponents(v) ==
    <<v.major, UnwrapOr(v.minor, 0), UnwrapOr(v.patch, 0), UnwrapOr(v.sub_patch, 0)>>

\* Lexicographic comparison of two sequences of numbers of the same length.
CmpNumbers(m, n) ==
    LET diff == {i \in 1..Len(m) : m[i] # n[i]}
    IN  IF diff = {} THEN 0
        ELSE LET i == CHOOSE k \in diff : \A j \in diff : k <= j
             IN  IF m[i] < n[i] THEN -1 ELSE 1

PreReleaseChain ==
    <<Str_4_0_alpha1, Str_4_0_beta1, Str_4_0_rc1, Str_4_0_stable, Str_4_1_stable, Str_4_2_dev1,
      Str_4_2>>

\* C19: identifiers with the same numeric components are ordered by the rank
\* of their tags, whatever the tag numbers; identifiers with different numeric
\* components are ordered by these; and 4.0-alpha1 < 4.0-beta1 < 4.0-rc1 <
\* 4.0-stable < 4.1-stable < 4.2-dev1 < 4.2.
C19_PreReleaseRanking ==
    Compared
        => LET o == Unwrap(call.out.val)
               na == NumericComponents(call.a)
               nb == NumericComponents(call.b)
           IN  /\ (na = nb /\ TagClass(call.a) < TagClass(call.b)) => o.ab = -1
               /\ na # nb => o.ab = CmpNumbers(na, nb)
               /\ \A i, j \in 1..Len(PreReleaseChain) :
                      (/\ i < j
                       /\ call.a = Unwrap(GodotVersionNew(PreReleaseChain[i], call.a.is_dotnet))
                       /\ call.b = Unwrap(GodotVersionNew(PreReleaseChain[j], call.b.is_dotnet)))
                          => o.lt_ab

\* A beta with a high tag number compared with a release candidate with a
\* low one.
C19_Witness ==
    /\ Compared
    /\ call.a = Unwrap(GodotVersionNew(Str_4_0_beta9, FALSE))
    /\ call.b = Unwrap(GodotVersionNew(Str_4_0_rc1, FALSE))
    /\ Unwrap(call.out.val).lt_ab

Parsed == call.fn = "new" /\ call.out.tag # "Pending"

\* C17: parsing the display string of an identifier again yields an
\* identifier that cmp calls Equal to it.
C17_DisplayRoundTrip ==
    (call.fn = "new" /\ call.reparsed.tag # "Pending")
        => /\ IsOk(call.reparsed)
           /\ VersionCmp(Unwrap(call.reparsed.val), Unwrap(call.out.val)) = 0

\* C18: a version string and a string that differs from it only by trailing
\* zero components and/or an explicit -stable tag parse to the same identifier,
\* field for field and under cmp; a zero component followed by a more specific
\* non-zero component is kept.
C18_CanonicalEquivalence ==
    (Parsed /\ IsOk(call.out))
        => LET v == Unwrap(call.out.val)
               c == Unwrap(VersionCaptures(call.version_str))
           IN  /\ IsOk(call.variant_out)
               /\ VersionEq(Unwrap(call.variant_out.val), v)
               /\ VersionCmp(Unwrap(call.variant_out.val), v) = 0
               /\ IsSome(v.sub_patch)
                      => /\ Unwrap(v.sub_patch) > 0
                         /\ v.patch = Some(StrToNat(Unwrap(c.g3)))
                         /\ v.minor = Some(StrToNat(Unwrap(c.g2)))
               /\ (IsSome(v.patch) /\ ~IsSome(v.sub_patch))
                      => /\ Unwrap(v.patch) > 0
                         /\ v.minor = Some(StrToNat(Unwrap(c.g2)))
               /\ (IsSome(v.minor) /\ ~IsSome(v.patch)) => Unwrap(v.minor) > 0

\* "4.2" and "4.2.0-stable" parsed.
C18_Witness ==
    /\ Parsed
    /\ call.version_str = Str_4_2
    /\ call.variant = Str_4_2_0_stable
    /\ IsOk(call.out)
    /\ call.variant_out = call.out
    /\ Unwrap(call.out.val).minor = Some(2)
    /\ Unwrap(call.out.val).patch = None

\* The major of s can be read: after an optional v, a run of digits that
\* fits u32.
MajorReadable(s) ==
    LET p == IF Len(s) >= 1 /\ s[1] = "v" THEN 2 ELSE 1
        e == DigitRunEnd(s, p)
    IN  e > p /\ ~OverflowsU32(SubSeq(s, p, e - 1))

\* C20: GodotVersion::new fails only if the major cannot be read: every
\* string that starts with an optional v and a readable major parses.
C20_FailsOnlyOnMajor ==
    Parsed => (IsOk(call.out) <=> MajorReadable(call.version_str))

(***************************************************************************)
(* Claims about activation, uninstalling and listing                       *)
(***************************************************************************)
\* C21: after set_active_version(V) returned Ok for an installed V, with the
\* active-symlink path and the bin/godot path each absent or a symlink, the
\* active symlink points at V's install directory, bin/godot is a symlink to
\* the executable file inside it, and get_active_version() returns Some(V).
C21_ActivationResult ==
    (scenario.step >= 2 /\ scenario.activated)
        => LET install_path == godot_installation_name(Unwrap(scenario.version))
           IN  /\ active = Symlink(install_path)
               /\ binlink = Symlink(<<install_path, ExeEntry>>)
               /\ scenario.step = 3 => last.res = Ok(scenario.version)

\* C22: uninstall_version(V) on an installed V removes V's install directory
\* and nothing else: every other install directory, the active symlink and
\* the bin/godot symlink stay as they are, also when V is the active version;
\* on a V that is not installed it fails and changes nothing.
C22_UninstallFrame ==
    [][last'.op = "uninstall_version"
       => LET install_path == godot_installation_name(Unwrap(last'.arg))
          IN  /\ active' = active
              /\ binlink' = binlink
              /\ IF install_path \in DOMAIN installs
                 THEN /\ IsOk(last'.res)
                      /\ DOMAIN installs' = (DOMAIN installs) \ {install_path}
                      /\ \A d \in DOMAIN installs' : installs'[d] = installs[d]
                 ELSE /\ ~IsOk(last'.res)
                      /\ installs' = installs]_vars

\* The active version was uninstalled while another version is installed: the
\* two symlinks still point into the removed directory.
C22_Witness ==
    /\ last.op = "uninstall_version"
    /\ IsOk(last.res)
    /\ active = Symlink(godot_installation_name(Unwrap(last.arg)))
    /\ binlink = Symlink(<<godot_installation_name(Unwrap(last.arg)), ExeEntry>>)
    /\ godot_installation_name(Unwrap(last.arg)) \notin DOMAIN installs
    /\ DOMAIN installs # {}

\* The remainder of a directory name after godot-, without a -dotnet suffix,
\* and whether the suffix was there; None for a name without the prefix.
NameRemainder(name) ==
    IF ~StartsWith(name, Str_godot_dash) THEN None
    ELSE LET rest == SubSeq(name, Len(Str_godot_dash) + 1, Len(name))
         IN  IF EndsWith(rest, Str_dash_dotnet)
             THEN Some([str |-> SubSeq(rest, 1, Len(rest) - Len(Str_dash_dotnet)), dotnet |-> TRUE])
             ELSE Some([str |-> rest, dotnet |-> FALSE])

\* The identifier a directory name stands for, if any.
NameIdentifier(name) ==
    IF ~IsSome(NameRemainder(name)) THEN None
    ELSE GodotVersionNew(Unwrap(NameRemainder(name)).str, Unwrap(NameRemainder(name)).dotnet)

\* C23: list_installed returns Ok with, in ascending order, exactly the
\* identifiers parsed from the names of the subdirectories of the root that
\* start with godot- and parse (one entry per such directory); files, other
\* directories and names that fail to parse are skipped, and a missing root
\* gives the empty list.
C23_ListInstalled ==
    (call.fn = "list_installed" /\ call.out.tag # "Pending")
        => /\ IsOk(call.out)
           /\ LET list == Unwrap(call.out.val)
                  counted == IF IsSome(call.root)
                             THEN {n \in DOMAIN Unwrap(call.root) :
                                      Unwrap(call.root)[n] = "dir" /\ IsSome(NameIdentifier(n))}
                             ELSE {}
              IN  /\ \A i, j \in 1..Len(list) : i < j => VersionCmp(list[i], list[j]) <= 0
                  /\ Len(list) = Cardinality(counted)
                  /\ \A n \in counted :
                        Cardinality({i \in 1..Len(list) : list[i] = Unwrap(NameIdentifier(n))})
                            = Cardinality({m \in counted : NameIdentifier(m) = NameIdentifier(n)})

\* read_dir yielded the newer install first, between a file and an ill-named
\* directory; the list has the two identifiers in ascending order.
C23_Witness ==
    /\ call.fn = "list_installed"
    /\ IsOk(call.out)
    /\ call.order = <<Str_godot_4_3_rc1_dotnet, Str_godot_x, Str_godot_4_2>>
    /\ Unwrap(call.root)[Str_godot_4_3_rc1_dotnet] = "dir"
    /\ Unwrap(call.root)[Str_godot_x] = "dir"
    /\ Unwrap(call.root)[Str_godot_4_2] = "dir"
    /\ Unwrap(call.out.val) = <<Unwrap(GodotVersionNew(Str_4_2, FALSE)),
                                Unwrap(GodotVersionNew(Str_4_3_rc1, TRUE))>>

\* C26: whenever get_active_version() returns Some(v), v is in the list that
\* list_installed() returns, in whatever order read_dir yields the
\* directories.
C26_ActiveImpliesInstalled ==
    LET r == get_active_version(installs, active)
    IN  (IsOk(r) /\ IsSome(Unwrap(r.val)))
            => \A order \in Orders(DOMAIN installs) :
                  \E i \in 1..Len(list_installed(installs, order)) :
                      list_installed(installs, order)[i] = Unwrap(Unwrap(r.val))

\* get_active_version() has returned the active version while another version
\* is installed next to it.
C26_Witness ==
    /\ last.op = "get_active_version"
    /\ IsOk(last.res)
    /\ IsSome(Unwrap(last.res.val))
    /\ active.kind = "symlink"
    /\ Cardinality(DOMAIN installs) = 2
    /\ last.res = get_active_version(installs, active)

\* C27: whenever the active symlink and bin/godot are both symlinks, the
\* target of bin/godot lies in the directory the active symlink points at.
C27_LinksConsistent ==
    (active.kind = "symlink" /\ binlink.kind = "symlink")
        => Unwrap(binlink.target)[1] = Unwrap(active.target)

\* C28: the archive ensure_installed hands to extract_zip was downloaded in
\* full: when a call has failed in the extraction, the file of its version in
\* the download cache is a whole archive, never the partial file an earlier
\* failed download left there.
C28_OnlyWholeArchivesExtracted ==
    (last.op = "ensure_installed" /\ ~IsOk(last.res) /\ Unwrap(last.res.val) = "extract")
        => dlcache[Unwrap(last.arg)].whole

\* C30: of two processes in ensure_installed(V, false) for a V that was not
\* installed, each one that returns Ok returns while the install directory is
\* completely extracted, and each one list_installed reported V to saw a
\* completely extracted directory.
C30_ConcurrentInstalls ==
    \A p \in Procs :
        /\ (scenario.procs[p].pc = "done" /\ IsOk(scenario.procs[p].res))
               => scenario.procs[p].complete
        /\ scenario.procs[p].listed => scenario.procs[p].listed_complete

(***************************************************************************)
(* Claims about the order and the scope of a sync                          *)
(***************************************************************************)

\* C24: in a run of sync_recursive every removal comes before every
\* create_dir_all and every copy, removals go down the path order (a child
\* before its parent), creations and copies go up the path order (a parent
\* before its children), and every copy finds the parent directory of its
\* target existing: a parent below the destination root always, the root
\* itself when it existed before the run.
C24_ReconciliationOrder ==
    fsync.run > 0
        => LET ops == fsync.ops
           IN  /\ \A i, j \in 1..Len(ops) :
                     i < j => IF ops[i].kind = "remove"
                              THEN ops[j].kind = "remove"
                                       => CmpPath(ops[i].path, ops[j].path) > 0
                              ELSE /\ ops[j].kind # "remove"
                                   /\ CmpPath(ops[i].path, ops[j].path) < 0
               /\ \A i \in 1..Len(ops) :
                     (ops[i].kind = "copy" /\ (Len(ops[i].path) > 1 \/ <<>> \in DOMAIN fsync.before))
                         => ops[i].parent

\* A run that removed two entries, a file standing where the source has a
\* directory among them, and then created that directory and copied a file
\* into it.
C24_Witness ==
    /\ fsync.run > 0
    /\ IsOk(fsync.res)
    /\ \E i, j, k, l \in 1..Len(fsync.ops) :
          /\ i < j /\ j < k /\ k < l
          /\ fsync.ops[i].kind = "remove" /\ fsync.ops[j].kind = "remove"
          /\ fsync.ops[k].kind = "create_dir_all" /\ fsync.ops[l].kind = "copy"
          /\ fsync.ops[k].path = fsync.ops[j].path
          /\ fsync.ops[k].path = ParentPath(fsync.ops[l].path)
          /\ ~fsync.before[fsync.ops[k].path].is_dir

\* A path is in the scope of an include set when it is under an include or an
\* ancestor of one.
InScope(rel_path, includes) ==
    \E inc \in Unwrap(includes) : StartsWith(rel_path, inc) \/ StartsWith(inc, rel_path)

\* C29: a run of sync_recursive with an include set leaves every destination
\* entry outside the scope of the includes in place and as it was.
C29_OutOfScopeUntouched ==
    (fsync.run > 0 /\ IsSome(fsync.includes))
        => \A p \in (DOMAIN fsync.before) \ {<<>>} :
              ~InScope(p, fsync.includes)
                  => p \in DOMAIN fsync.dest /\ fsync.dest[p] = fsync.before[p]

(***************************************************************************)
(* Claims about repeated, failed and concurrent installs                   *)
(***************************************************************************)

\* C25: in every state the installer reaches, ensure_installed(V, false) for a
\* version V that list_installed reports asks the client for nothing (its
\* outcome does not depend on the client's answers), leaves the installations
\* root and the download cache as they are and returns Ok with the path of
\* V's executable.
C25_InstalledIsReused ==
    \A v \in Requested :
        v \in InstalledVersions(installs)
            => \A rel \in CatalogOutcomes, dl \in Downloads :
                  LET r == ensure_installed(installs, dlcache, v, FALSE, rel, dl)
                  IN  /\ r.installs = installs
                      /\ r.dlcache = dlcache
                      /\ IsOk(r.res)
                      /\ Unwrap(r.res.val) = <<godot_installation_name(v), ExeEntry>>

=============================================================================
